---- MODULE Spec2Model ----
(***************************************************************************)
(* Model of the project-school backend: the task/assignment router         *)
(* (src/routers/tasks.py), the agent endpoint (src/routers/chat.py) and    *)
(* the learning agent with its response validation pipeline                *)
(* (src/agents/learning_agent.py).                                         *)
(*                                                                         *)
(* Text is modelled as a sequence of tokens.  A token is a record          *)
(* [t, v]: a run of characters v of kind t ("ws" whitespace, "p"           *)
(* punctuation, "num" a maximal run of digits, "str" a JSON string         *)
(* literal whose content is v, "word" any other run).  Concatenating the   *)
(* tokens gives the characters of the text.                                *)
(***************************************************************************)
EXTENDS Integers, Sequences, FiniteSets, TLC

\* ------------------------------------------------------------------ bounds

\* longest tasks array of one assignment document the model explores
MaxTasks == 2
\* most comments on one assignment sub-record
MaxComments == 1
\* largest sequenceId a request carries
MaxSeq == 1
\* most chat records the model explores
MaxChats == 1
\* most task documents created through create_task
MaxCreated == 2

\* ------------------------------------------------------------------ tokens

W(s) == [t |-> "word", v |-> s]
P(c) == [t |-> "p", v |-> c]
Q(s) == [t |-> "str", v |-> s]
N(d) == [t |-> "num", v |-> d]
SP == [t |-> "ws", v |-> " "]
NL == [t |-> "ws", v |-> "\n"]
\* the markdown fence marker, three backticks
BT == [t |-> "p", v |-> "BACKTICKS"]

IsWs(tok) == tok.t = "ws"

\* index of the first token at or after i that is not whitespace (Len+1 if none)
RECURSIVE SkipWs(_, _)
SkipWs(s, i) ==
    IF i > Len(s) THEN Len(s) + 1
    ELSE IF IsWs(s[i]) THEN SkipWs(s, i + 1) ELSE i

\* index of the last token at or before i that is not whitespace (0 if none)
RECURSIVE SkipWsBack(_, _)
SkipWsBack(s, i) ==
    IF i < 1 THEN 0
    ELSE IF IsWs(s[i]) THEN SkipWsBack(s, i - 1) ELSE i

\* str.strip(): drop the leading and the trailing whitespace
Strip(s) == SubSeq(s, SkipWs(s, 1), SkipWsBack(s, Len(s)))

\* str.split on newline: the lines of s, the separators dropped; at least one line
RECURSIVE SplitLinesFrom(_, _, _)
SplitLinesFrom(s, i, cur) ==
    IF i > Len(s) THEN <<cur>>
    ELSE IF s[i] = NL THEN <<cur>> \o SplitLinesFrom(s, i + 1, <<>>)
    ELSE SplitLinesFrom(s, i + 1, Append(cur, s[i]))

SplitLines(s) == SplitLinesFrom(s, 1, <<>>)

\* ------------------------------------------------------- decoded JSON values

\* A decoded JSON value: a string, a number (kept as its decimal literal),
\* null/true/false, an array, or an object.  Of an object only the keys "id"
\* and "title" are kept, the two keys the pipeline reads; a key that is not
\* present holds Absent.
JStr(s) == [k |-> "str", v |-> s]
JNum(d) == [k |-> "num", v |-> d]
JLit(s) == [k |-> "lit", v |-> s]
JArr(items) == [k |-> "arr", items |-> items]
Absent == [k |-> "absent"]
JObj(id, title) == [k |-> "obj", id |-> id, title |-> title]
\* Python's None, which is what JSON null decodes to
None == JLit("null")

\* dict.get(key, default) on a decoded object
Get(obj, key, default) ==
    LET v == IF key = "id" THEN obj.id ELSE obj.title
    IN  IF v = Absent THEN default ELSE v

\* Python's str(): a string is itself, an integer its decimal digits, None is
\* "None", True/False are capitalised; a list or a dict prints as its repr,
\* which starts with a bracket or a brace
PyStr(v) ==
    CASE v.k = "str" -> v.v
      [] v.k = "num" -> v.v
      [] v.k = "lit" -> (CASE v.v = "null" -> "None"
                           [] v.v = "true" -> "True"
                           [] OTHER -> "False")
      [] v.k = "arr" -> "[...]"
      [] OTHER -> "{...}"

\* -------------------------------------------------------------- json.loads

ParseFail == [ok |-> FALSE, val |-> None, next |-> 0]
ParseOk(v, n) == [ok |-> TRUE, val |-> v, next |-> n]

\* dict construction while decoding: a repeated key keeps its last value
PutKey(obj, key, v) ==
    CASE key = "id" -> [obj EXCEPT !.id = v]
      [] key = "title" -> [obj EXCEPT !.title = v]
      [] OTHER -> obj

RECURSIVE ParseValue(_, _), ParseItems(_, _, _), ParseMembers(_, _, _)

\* one JSON value starting at or after token i
ParseValue(s, i0) ==
    LET i == SkipWs(s, i0) IN
    IF i > Len(s) THEN ParseFail
    ELSE LET tok == s[i] IN
         CASE tok.t = "str" -> ParseOk(JStr(tok.v), i + 1)
           [] tok.t = "num" -> ParseOk(JNum(tok.v), i + 1)
           [] tok \in {W("null"), W("true"), W("false")} ->
                ParseOk(JLit(tok.v), i + 1)
           [] tok = P("[") ->
                LET j == SkipWs(s, i + 1) IN
                IF j <= Len(s) /\ s[j] = P("]")
                THEN ParseOk(JArr(<<>>), j + 1)
                ELSE ParseItems(s, i + 1, <<>>)
           [] tok = P("{") ->
                LET j == SkipWs(s, i + 1) IN
                IF j <= Len(s) /\ s[j] = P("}")
                THEN ParseOk(JObj(Absent, Absent), j + 1)
                ELSE ParseMembers(s, i + 1, JObj(Absent, Absent))
           [] OTHER -> ParseFail

\* the elements of an array after its opening bracket, up to the closing one
ParseItems(s, i, acc) ==
    LET r == ParseValue(s, i) IN
    IF ~r.ok THEN ParseFail
    ELSE LET j == SkipWs(s, r.next) IN
         IF j > Len(s) THEN ParseFail
         ELSE IF s[j] = P(",") THEN ParseItems(s, j + 1, Append(acc, r.val))
         ELSE IF s[j] = P("]") THEN ParseOk(JArr(Append(acc, r.val)), j + 1)
         ELSE ParseFail

\* the members of an object after its opening brace, up to the closing one
ParseMembers(s, i, obj) ==
    LET kI == SkipWs(s, i) IN
    IF kI > Len(s) \/ s[kI].t # "str" THEN ParseFail
    ELSE LET c == SkipWs(s, kI + 1) IN
         IF c > Len(s) \/ s[c] # P(":") THEN ParseFail
         ELSE LET r == ParseValue(s, c + 1) IN
              IF ~r.ok THEN ParseFail
              ELSE LET j == SkipWs(s, r.next)
                       o == PutKey(obj, s[kI].v, r.val)
                   IN  IF j > Len(s) THEN ParseFail
                       ELSE IF s[j] = P(",") THEN ParseMembers(s, j + 1, o)
                       ELSE IF s[j] = P("}") THEN ParseOk(o, j + 1)
                       ELSE ParseFail

\* json.loads: the whole text must be one value, whitespace around it allowed;
\* ok = FALSE stands for JSONDecodeError
JsonLoads(s) ==
    LET r == ParseValue(s, 1) IN
    IF r.ok /\ SkipWs(s, r.next) > Len(s) THEN r ELSE ParseFail

\* ------------------------------------------------- parse_json_from_response

\* re.sub("```json\s*", "", s): every fence marker directly followed by json,
\* together with the whitespace after it, is removed
RECURSIVE RemoveJsonFences(_, _)
RemoveJsonFences(s, i) ==
    IF i > Len(s) THEN <<>>
    ELSE IF s[i] = BT /\ i < Len(s) /\ s[i + 1] = W("json")
         THEN RemoveJsonFences(s, SkipWs(s, i + 2))
         ELSE <<s[i]>> \o RemoveJsonFences(s, i + 1)

\* re.sub("```\s*", "", s): every fence marker and the whitespace after it
RECURSIVE RemoveFences(_, _)
RemoveFences(s, i) ==
    IF i > Len(s) THEN <<>>
    ELSE IF s[i] = BT THEN RemoveFences(s, SkipWs(s, i + 1))
         ELSE <<s[i]>> \o RemoveFences(s, i + 1)

\* positions of the opening and of the closing brackets of s
Opens(s) == {i \in 1..Len(s) : s[i] = P("[")}
Closes(s) == {i \in 1..Len(s) : s[i] = P("]")}
MinOf(S) == CHOOSE x \in S : \A y \in S : x <= y
MaxOf(S) == CHOOSE x \in S : \A y \in S : x >= y

\* re.search("\[.*\]", s, DOTALL): from the first opening bracket to the last
\* closing bracket after it; the whole text when there is no such span
BracketSpan(s) ==
    IF Opens(s) # {} /\ \E c \in Closes(s) : c > MinOf(Opens(s))
    THEN SubSeq(s, MinOf(Opens(s)), MaxOf(Closes(s)))
    ELSE s

\* an argument of a parser: a text, or a value that is no string
Text(t) == [isStr |-> TRUE, text |-> t]
NotText == [isStr |-> FALSE, text |-> <<>>]

\* the try block of parse_json_from_response: exc is the exception it raises
\* ("none" when it returns), value what it returns.  strip() on a value that
\* is no string and task.get on an element that is no object raise
\* AttributeError; json.loads raises JSONDecodeError.
ParseJsonTry(input) ==
    IF ~input.isStr THEN [exc |-> "AttributeError", value |-> <<>>]
    ELSE
    LET cleaned == Strip(RemoveFences(RemoveJsonFences(Strip(input.text), 1), 1))
        json_str == BracketSpan(cleaned)
        r == JsonLoads(json_str)
    IN  IF ~r.ok THEN [exc |-> "JSONDecodeError", value |-> <<>>]
        ELSE IF r.val.k # "arr" THEN [exc |-> "none", value |-> <<>>]
        ELSE IF \E n \in 1..Len(r.val.items) : r.val.items[n].k # "obj"
             THEN [exc |-> "AttributeError", value |-> <<>>]
        ELSE [exc |-> "none", value |-> r.val.items]

\* except clauses that catch the decoding error only
CatchDecodeErrorOnly(exc) == [raised |-> exc # "JSONDecodeError", tasks |-> <<>>]

\* the except clauses of parse_json_from_response: JSONDecodeError and every
\* other Exception give the empty list
OnParseError(exc) == [raised |-> FALSE, tasks |-> <<>>]

\* how a call of parse_json_from_response ends
ParseJsonOutcome(input) ==
    LET r == ParseJsonTry(input) IN
    IF r.exc = "none" THEN [raised |-> FALSE, tasks |-> r.value] ELSE OnParseError(r.exc)

\* the list parse_json_from_response returns for a text
parse_json_from_response(response_text) == ParseJsonOutcome(Text(response_text)).tasks

\* ------------------------------------- numbered-list parser (routers/chat.py)

\* least number of lines beginning with a digit that makes a response a task list
MinNumberedLines == 3

\* the lines of the stripped text, each stripped
StrippedLines(text) ==
    LET lines == SplitLines(Strip(text))
    IN  [n \in 1..Len(lines) |-> Strip(lines[n])]

\* a test that takes one numbered line for a list
HasNumberedLine(text) ==
    \E n \in 1..Len(StrippedLines(text)) :
        StrippedLines(text)[n] # <<>> /\ StrippedLines(text)[n][1].t = "num"

\* _is_task_list_response: at least three non-blank lines begin with a digit
is_task_list_response(text) ==
    LET lines == StrippedLines(text)
        numbered == {n \in 1..Len(lines) : lines[n] # <<>> /\ lines[n][1].t = "num"}
    IN  Cardinality(numbered) >= MinNumberedLines

\* a match that accepts the dot only as the delimiter
LineMatchesDotOnly(l) ==
    /\ Len(l) >= 3
    /\ l[1].t = "num"
    /\ l[2] = P(".")

\* re.match("^(\d+)[.\)]\s*(.+)$", line) on a stripped line: a run of digits, a
\* dot or a closing parenthesis, and at least one more character
LineMatches(l) ==
    /\ Len(l) >= 3
    /\ l[1].t = "num"
    /\ l[2] \in {P("."), P(")")}

SuggestedTask(number, name) ==
    [taskId |-> "suggested_task_" \o number, name |-> name, isSuggested |-> TRUE]

\* the first loop of parse_agent_response_to_tasks: one task per matching line
RECURSIVE MatchedTasks(_, _)
MatchedTasks(lines, n) ==
    IF n > Len(lines) THEN <<>>
    ELSE IF lines[n] # <<>> /\ LineMatches(lines[n])
         THEN <<SuggestedTask(lines[n][1].v, Strip(SubSeq(lines[n], 3, Len(lines[n]))))>>
              \o MatchedTasks(lines, n + 1)
         ELSE MatchedTasks(lines, n + 1)

\* re.split("\d+[.\)]\s*", text): the pieces between the numbering delimiters
RECURSIVE SplitOnNumbering(_, _, _)
SplitOnNumbering(s, i, cur) ==
    IF i > Len(s) THEN <<cur>>
    ELSE IF s[i].t = "num" /\ i < Len(s) /\ s[i + 1] \in {P("."), P(")")}
         THEN <<cur>> \o SplitOnNumbering(s, SkipWs(s, i + 2), <<>>)
         ELSE SplitOnNumbering(s, i + 1, Append(cur, s[i]))

\* the fallback loop: the non-blank pieces after the first, numbered by position
RECURSIVE FallbackTasks(_, _)
FallbackTasks(parts, n) ==
    IF n > Len(parts) THEN <<>>
    ELSE IF Strip(parts[n]) # <<>>
         THEN <<SuggestedTask(ToString(n - 1), Strip(parts[n]))>> \o FallbackTasks(parts, n + 1)
         ELSE FallbackTasks(parts, n + 1)

\* parse_agent_response_to_tasks.  The function imports re inside its loop,
\* after the blank-line check, so re is unbound in the fallback when every line
\* is blank: raised = TRUE stands for that UnboundLocalError.
parse_agent_response_to_tasks(response_text) ==
    LET lines == StrippedLines(response_text)
        tasks == MatchedTasks(lines, 1)
    IN  IF tasks # <<>> THEN [raised |-> FALSE, tasks |-> tasks]
        ELSE IF \A n \in 1..Len(lines) : lines[n] = <<>>
             THEN [raised |-> TRUE, tasks |-> <<>>]
             ELSE [raised |-> FALSE,
                   tasks |-> FallbackTasks(SplitOnNumbering(response_text, 1, <<>>), 2)]

\* ------------------------------------------------------------ the store

VARIABLES
    tasks,        \* db.tasks: a set of documents [_id, project_id, title, status]
    projects,     \* db.projects: a set of documents [_id, name]
    agents,       \* db.agents: a sequence of documents [userId, agentName]
    assignments,  \* db.assignments: a sequence of documents [userId, tasks]
    chats,        \* db.chats: a sequence of documents, in insertion order
    http          \* the last response of an assignment handler: [op, code]

storeVars == <<tasks, projects, agents, assignments, chats>>

VARIABLES
    goals,        \* db.goals: a sequence of documents [userId, goals]
    goalCall,     \* the last request to a goals handler and its status code
    linkReqs,     \* the link_user_to_task requests in flight, by request
    rearrangeReqs, \* the rearrange_user_tasks requests in flight, by request
    call          \* the last call of a parser, or the last request to an
                  \* assignment handler with its arguments: [fn, input, outcome]

auxVars == <<goals, goalCall, linkReqs, rearrangeReqs, call>>

Users == {"u1", "u2"}

\* the project every agent run recommends from (hard-coded in the agent)
FixedProject == "695caa41c485455f397017ae"
OtherProject == "p2"

\* the identifiers the store generates for task documents, as str(ObjectId)
\* prints them: lower-case hexadecimal ("22" stands for one made of digits only)
TaskObjectIds == {"a1", "22"}
ProjectObjectIds == {FixedProject, OtherProject}

\* ObjectId.is_valid on a request's identifier string: hexadecimal in either case
ObjectIdIsValid(s) == s \in {"a1", "A1", "22"}
\* str(ObjectId(s)): the identifier in lower case
ObjectId(s) == IF s = "A1" THEN "a1" ELSE s

\* a sequenceId that is null
NoSeq == -1

\* the values the requests and the model answers are drawn from: titles,
\* statuses and names of documents, the identifiers, assigners, optional flags,
\* comments and agent names of requests, the fences and the prose around an
\* encoded list, and goal texts
Inputs ==
    [Titles |-> {"Intro"},
     Statuses |-> {"pending", "completed"},
     ProjectNames |-> {"Alpha"},
     TaskIdInputs |-> {"a1", "A1", "22", "zz"},
     AssignedBys |-> {"user", "admin"},
     OptBools |-> {"None", "True", "False"},
     CommentInputs |-> {<<>>, <<SP, W("ok")>>},
     CommentBys |-> {"None", "user"},
     AgentNames |-> {<<SP>>, <<W("Bob"), SP>>},
     Wraps |-> {"none", "fence", "json"},
     Proses |-> {"none", "plain", "bracketed"},
     GoalTexts |-> {<<SP>>, <<W("ml")>>, <<SP, W("ai"), SP>>}]

\* find_one({"userId": u}) on a sequence of documents: the position of the
\* first match, 0 when there is none
FindOne(coll, u) ==
    IF \E n \in 1..Len(coll) : coll[n].userId = u
    THEN MinOf({n \in 1..Len(coll) : coll[n].userId = u})
    ELSE 0

\* the elements of a sequence
Range(seq) == {seq[n] : n \in 1..Len(seq)}

\* ------------------------------------------- tasks router (routers/tasks.py)

\* create_task: insert a task document; id is the identifier the store
\* generates for it, one no document has yet
create_task(id, project_id, title) ==
    /\ Cardinality(tasks) < MaxCreated
    /\ id \in TaskObjectIds \ {t._id : t \in tasks}
    /\ tasks' = tasks \cup {[_id |-> id, project_id |-> project_id,
                             title |-> title, status |-> "pending"]}
    /\ UNCHANGED <<projects, agents, assignments, chats, http>>

\* update_task_status: $set the status of the task with that identifier; an
\* ill-formed identifier is refused
update_task_status(task_id, status) ==
    /\ tasks' = IF ~ObjectIdIsValid(task_id) THEN tasks
                ELSE {IF t._id = ObjectId(task_id) THEN [t EXCEPT !.status = status] ELSE t
                        : t \in tasks}
    /\ UNCHANGED <<projects, agents, assignments, chats, http>>

\* the sub-record link_user_to_task builds
TaskAssignment(taskId, assignedBy, sequenceId) ==
    [taskId |-> taskId, assignedBy |-> assignedBy, sequenceId |-> sequenceId,
     isCompleted |-> FALSE, comments |-> <<>>]

\* $addToSet: the value is appended unless an element equal to it, field by
\* field, is already in the array
AddToSet(arr, rec) == IF rec \in Range(arr) THEN arr ELSE Append(arr, rec)

\* update_one({"userId": u}, {"$addToSet": {"tasks": rec}}, upsert=True)
UpsertAddToSet(coll, u, rec) ==
    LET n == FindOne(coll, u) IN
    IF n = 0 THEN Append(coll, [userId |-> u, tasks |-> <<rec>>])
    ELSE [coll EXCEPT ![n].tasks = AddToSet(coll[n].tasks, rec)]

\* a link_user_to_task that does not look the task up
LinkWithoutLookup(userId, taskId, assignedBy, sequenceId) ==
    [code |-> 201,
     coll |-> UpsertAddToSet(assignments, userId,
                             TaskAssignment(taskId, assignedBy, sequenceId))]

\* what link_user_to_task answers and the assignments collection it leaves
LinkOutcome(userId, taskId, assignedBy, sequenceId) ==
    IF ~ObjectIdIsValid(taskId)
    THEN [code |-> 400, coll |-> assignments]
    ELSE IF ~\E t \in tasks : t._id = ObjectId(taskId)
    THEN [code |-> 404, coll |-> assignments]
    ELSE [code |-> 201,
          coll |-> UpsertAddToSet(assignments, userId,
                                  TaskAssignment(taskId, assignedBy, sequenceId))]

TasksBounded(coll) == \A n \in 1..Len(coll) : Len(coll[n].tasks) <= MaxTasks

\* link_user_to_task
link_user_to_task(userId, taskId, assignedBy, sequenceId) ==
    LET r == LinkOutcome(userId, taskId, assignedBy, sequenceId) IN
    /\ assignments' = r.coll
    /\ TasksBounded(assignments')
    /\ http' = [op |-> "link_user_to_task", code |-> r.code]
    /\ UNCHANGED <<tasks, projects, agents, chats>>

\* link_user_to_task when its response is not looked at
Assigned(userId, taskId, assignedBy, sequenceId) ==
    LET r == LinkOutcome(userId, taskId, assignedBy, sequenceId) IN
    /\ r.code = 201
    /\ assignments' = r.coll
    /\ TasksBounded(assignments')
    /\ UNCHANGED <<tasks, projects, agents, chats, http>>

\* most link_user_to_task requests in one behaviour of the concurrent handlers
MaxLinks == 2

\* link_user_to_task, request by request: the handler is a coroutine that
\* gives way at each await, so requests interleave between its store calls.
\* A request is [userId, taskId, at, code]; at is the call it waits for.

\* the request arrives: the ObjectId check, up to db.tasks.find_one
link_request(userId, taskId) ==
    /\ Len(linkReqs) < MaxLinks
    /\ linkReqs' = Append(linkReqs,
                          IF ~ObjectIdIsValid(taskId)
                          THEN [userId |-> userId, taskId |-> taskId, at |-> "done", code |-> 400]
                          ELSE [userId |-> userId, taskId |-> taskId, at |-> "find_task", code |-> 0])
    /\ UNCHANGED <<tasks, projects, agents, assignments, chats, http>>

\* db.tasks.find_one completes for request n
link_find_task(n) ==
    /\ linkReqs[n].at = "find_task"
    /\ linkReqs' = [linkReqs EXCEPT ![n] =
                        IF \E t \in tasks : t._id = ObjectId(linkReqs[n].taskId)
                        THEN [@ EXCEPT !.at = "update_one"]
                        ELSE [@ EXCEPT !.at = "done", !.code = 404]]
    /\ UNCHANGED <<tasks, projects, agents, assignments, chats, http>>

\* the indexes main.py creates: one on chats, a unique one on agents.userId;
\* none on assignments, so every insert of an assignment document is accepted
AssignmentsIndex(coll) == TRUE

\* update_one(..., upsert=True) of request n looks for the user's document:
\* a document that matches is updated by $addToSet in the same step; with no
\* match the store goes on to insert one
link_update_one(n) ==
    /\ linkReqs[n].at = "update_one"
    /\ LET r == linkReqs[n]
           k == FindOne(assignments, r.userId) IN
       IF k = 0
       THEN /\ linkReqs' = [linkReqs EXCEPT ![n].at = "upsert_insert"]
            /\ UNCHANGED assignments
       ELSE /\ assignments' = [assignments EXCEPT ![k].tasks =
                                  AddToSet(@, TaskAssignment(r.taskId, "admin", NoSeq))]
            /\ linkReqs' = [linkReqs EXCEPT ![n].at = "done", ![n].code = 201]
    /\ UNCHANGED <<tasks, projects, agents, chats, http>>

\* the insert of the upsert of request n; an insert the index refuses makes
\* the store run the update again, which then finds the document
link_upsert_insert(n) ==
    /\ linkReqs[n].at = "upsert_insert"
    /\ LET r == linkReqs[n]
           doc == [userId |-> r.userId, tasks |-> <<TaskAssignment(r.taskId, "admin", NoSeq)>>] IN
       IF AssignmentsIndex(Append(assignments, doc))
       THEN /\ assignments' = Append(assignments, doc)
            /\ linkReqs' = [linkReqs EXCEPT ![n].at = "done", ![n].code = 201]
       ELSE /\ linkReqs' = [linkReqs EXCEPT ![n].at = "update_one"]
            /\ UNCHANGED assignments
    /\ UNCHANGED <<tasks, projects, agents, chats, http>>

NewComment(comment, commentBy) == [comment |-> comment, commentBy |-> commentBy]

PushComment(c, elem) == [elem EXCEPT !.comments = Append(@, c)]
SetCompleted(b, elem) == [elem EXCEPT !.isCompleted = b]
SetSequence(q, elem) == [elem EXCEPT !.sequenceId = q]

\* the update operators the handlers use on an array element: a $push to its
\* comments, or a $set of its isCompleted or of its sequenceId
ApplyUpdate(op, elem) ==
    CASE op.f = "push" -> PushComment(op.v, elem)
      [] op.f = "isCompleted" -> SetCompleted(op.v, elem)
      [] OTHER -> SetSequence(op.v, elem)

\* an update with array_filters [{"elem.taskId": t}] on the first document of
\* user u: op is applied to every element of its tasks array whose taskId is t
UpdateElems(coll, u, t, op) ==
    LET n == FindOne(coll, u) IN
    IF n = 0 THEN coll
    ELSE [coll EXCEPT ![n].tasks =
            [m \in 1..Len(coll[n].tasks) |->
                IF coll[n].tasks[m].taskId = t THEN ApplyUpdate(op, coll[n].tasks[m])
                ELSE coll[n].tasks[m]]]

CommentsBounded(coll) ==
    \A n \in 1..Len(coll) : \A m \in 1..Len(coll[n].tasks) :
        Len(coll[n].tasks[m].comments) <= MaxComments

\* update_user_task_assignment.  The optional query parameters: isCompleted is
\* "None", "True" or "False"; sequenceId is NoSeq when not given; comment is a
\* text, <<>> when not given or empty; commentBy is "None", "user" or "admin".
update_user_task_assignment(user_id, task_id, isCompleted, sequenceId, comment, commentBy) ==
    LET hasFields == isCompleted # "None" \/ sequenceId # NoSeq
        afterPush ==
            IF comment # <<>> /\ commentBy # "None"
            THEN UpdateElems(assignments, user_id, task_id,
                             [f |-> "push", v |-> NewComment(comment, commentBy)])
            ELSE assignments
        afterCompleted ==
            IF isCompleted # "None"
            THEN UpdateElems(afterPush, user_id, task_id,
                             [f |-> "isCompleted", v |-> isCompleted = "True"])
            ELSE afterPush
        afterSet ==
            IF sequenceId # NoSeq
            THEN UpdateElems(afterCompleted, user_id, task_id,
                             [f |-> "sequenceId", v |-> sequenceId])
            ELSE afterCompleted
    IN  /\ assignments' = afterSet
        /\ CommentsBounded(assignments')
        /\ http' = [op |-> "update_user_task_assignment",
                    code |-> IF hasFields /\ FindOne(assignments, user_id) = 0
                             THEN 404 ELSE 200]
        /\ UNCHANGED <<tasks, projects, agents, chats>>

\* the loop of rearrange_user_tasks over the payload's tasks list
RECURSIVE ApplyRearrange(_, _, _, _)
ApplyRearrange(coll, u, updates, n) ==
    IF n > Len(updates) THEN coll
    ELSE IF updates[n].taskId = "" \/ updates[n].sequenceId = NoSeq
         THEN ApplyRearrange(coll, u, updates, n + 1)
         ELSE ApplyRearrange(
                UpdateElems(coll, u, updates[n].taskId,
                            [f |-> "sequenceId", v |-> updates[n].sequenceId]),
                u, updates, n + 1)

\* rearrange_user_tasks; userId "" and an empty tasks list stand for the
\* missing payload keys
rearrange_user_tasks(userId, updates) ==
    /\ IF userId = "" \/ updates = <<>>
       THEN /\ http' = [op |-> "rearrange_user_tasks", code |-> 400]
            /\ UNCHANGED assignments
       ELSE IF FindOne(assignments, userId) = 0
       THEN /\ http' = [op |-> "rearrange_user_tasks", code |-> 404]
            /\ UNCHANGED assignments
       ELSE /\ assignments' = ApplyRearrange(assignments, userId, updates, 1)
            /\ http' = [op |-> "rearrange_user_tasks", code |-> 200]
    /\ UNCHANGED <<tasks, projects, agents, chats>>

\* most rearrange_user_tasks requests in one behaviour of the concurrent handlers
MaxRearranges == 2

\* rearrange_user_tasks, request by request: the handler gives way at
\* db.assignments.find_one and at the update_one of every entry of the tasks
\* list, so requests interleave between these calls.  A request is
\* [userId, updates, at, i, code]; at is the call it waits for and i the entry
\* of the tasks list the next update_one is for.

\* the first entry of the tasks list from n on that the loop does not skip
RECURSIVE NextUpdate(_, _)
NextUpdate(updates, n) ==
    IF n > Len(updates) THEN n
    ELSE IF updates[n].taskId = "" \/ updates[n].sequenceId = NoSeq
         THEN NextUpdate(updates, n + 1)
         ELSE n

\* the request arrives: the checks of userId and tasks, up to find_one
rearrange_request(userId, updates) ==
    /\ Len(rearrangeReqs) < MaxRearranges
    /\ rearrangeReqs' = Append(rearrangeReqs,
                               IF userId = "" \/ updates = <<>>
                               THEN [userId |-> userId, updates |-> updates, at |-> "done", i |-> 0, code |-> 400]
                               ELSE [userId |-> userId, updates |-> updates, at |-> "find_one", i |-> 0, code |-> 0])
    /\ UNCHANGED <<tasks, projects, agents, assignments, chats, http>>

\* db.assignments.find_one completes for request n; the loop runs up to its
\* first update_one, or to the return when it skips every entry
rearrange_find_one(n) ==
    /\ rearrangeReqs[n].at = "find_one"
    /\ LET r == rearrangeReqs[n]
           first == NextUpdate(r.updates, 1) IN
       rearrangeReqs' = [rearrangeReqs EXCEPT ![n] =
                            IF FindOne(assignments, r.userId) = 0
                            THEN [@ EXCEPT !.at = "done", !.code = 404]
                            ELSE IF first > Len(r.updates)
                            THEN [@ EXCEPT !.at = "done", !.code = 200]
                            ELSE [@ EXCEPT !.at = "update_one", !.i = first]]
    /\ UNCHANGED <<tasks, projects, agents, assignments, chats, http>>

\* the update_one of entry i of request n completes; the loop runs up to the
\* next update_one, or to the return
rearrange_update_one(n) ==
    /\ rearrangeReqs[n].at = "update_one"
    /\ LET r == rearrangeReqs[n]
           next == NextUpdate(r.updates, r.i + 1) IN
       /\ assignments' = UpdateElems(assignments, r.userId, r.updates[r.i].taskId,
                                     [f |-> "sequenceId", v |-> r.updates[r.i].sequenceId])
       /\ rearrangeReqs' = [rearrangeReqs EXCEPT ![n] =
                               IF next > Len(r.updates)
                               THEN [@ EXCEPT !.at = "done", !.code = 200]
                               ELSE [@ EXCEPT !.i = next]]
    /\ UNCHANGED <<tasks, projects, agents, chats, http>>

\* an update that empties the tasks array of the first document of user u
PullEveryTask(coll, u, t) ==
    LET n == FindOne(coll, u) IN
    IF n = 0 THEN coll ELSE [coll EXCEPT ![n].tasks = <<>>]

\* $pull {"tasks": {"taskId": t}} on the first document of user u
PullTask(coll, u, t) ==
    LET n == FindOne(coll, u) IN
    IF n = 0 THEN coll
    ELSE [coll EXCEPT ![n].tasks = SelectSeq(@, LAMBDA e : e.taskId # t)]

\* delete_user_task
delete_user_task(userId, taskId) ==
    /\ IF userId = "" \/ taskId = ""
       THEN /\ http' = [op |-> "delete_user_task", code |-> 400]
            /\ UNCHANGED assignments
       ELSE IF FindOne(assignments, userId) = 0
       THEN /\ http' = [op |-> "delete_user_task", code |-> 404]
            /\ UNCHANGED assignments
       ELSE /\ assignments' = PullTask(assignments, userId, taskId)
            /\ http' = [op |-> "delete_user_task",
                        code |-> IF assignments' = assignments THEN 404 ELSE 200]
    /\ UNCHANGED <<tasks, projects, agents, chats>>

\* any(task.get("taskId") == t for task in assignment.get("tasks", []))
TaskFound(coll, u, t) ==
    \E e \in Range(coll[FindOne(coll, u)].tasks) : e.taskId = t

\* save_task_comment
save_task_comment(userId, taskId, comment, commentBy) ==
    /\ IF Strip(comment) = <<>>
       THEN /\ http' = [op |-> "save_task_comment", code |-> 400]
            /\ UNCHANGED assignments
       ELSE IF FindOne(assignments, userId) = 0 \/ ~TaskFound(assignments, userId, taskId)
       THEN /\ http' = [op |-> "save_task_comment", code |-> 404]
            /\ UNCHANGED assignments
       ELSE /\ assignments' =
                 UpdateElems(assignments, userId, taskId,
                             [f |-> "push", v |-> NewComment(Strip(comment), commentBy)])
            /\ CommentsBounded(assignments')
            /\ http' = [op |-> "save_task_comment", code |-> 200]
    /\ UNCHANGED <<tasks, projects, agents, chats>>

\* update_task_completion_status; isCompleted is "None" (key missing), "True"
\* or "False".  An update that changes nothing has modified_count 0, which the
\* handler reports as 500.
update_task_completion_status(userId, taskId, isCompleted) ==
    /\ IF userId = "" \/ taskId = "" \/ isCompleted = "None"
       THEN /\ http' = [op |-> "update_task_completion_status", code |-> 400]
            /\ UNCHANGED assignments
       ELSE IF FindOne(assignments, userId) = 0 \/ ~TaskFound(assignments, userId, taskId)
       THEN /\ http' = [op |-> "update_task_completion_status", code |-> 404]
            /\ UNCHANGED assignments
       ELSE /\ assignments' =
                 UpdateElems(assignments, userId, taskId,
                             [f |-> "isCompleted", v |-> isCompleted = "True"])
            /\ http' = [op |-> "update_task_completion_status",
                        code |-> IF assignments' = assignments THEN 500 ELSE 200]
    /\ UNCHANGED <<tasks, projects, agents, chats>>

\* create_new_project (routers/projects.py): insert a project document; id is
\* the identifier the store generates for it
create_new_project(id, name) ==
    /\ id \in ProjectObjectIds \ {p._id : p \in projects}
    /\ projects' = projects \cup {[_id |-> id, name |-> name]}
    /\ UNCHANGED <<tasks, agents, assignments, chats, http>>

\* manage_agent (routers/chat.py): upsert the stripped agent name of the user
manage_agent(userId, agentName) ==
    /\ Strip(agentName) # <<>>
    /\ LET n == FindOne(agents, userId) IN
       agents' = IF n = 0
                 THEN Append(agents, [userId |-> userId, agentName |-> Strip(agentName)])
                 ELSE [agents EXCEPT ![n].agentName = Strip(agentName)]
    /\ UNCHANGED <<tasks, projects, assignments, chats, http>>

\* ------------------------------------------- goals router (routers/goals.py)

\* most goals in the list of a request
MaxGoals == 2

\* an upsert that keeps the entries already stored and adds the new ones
MergeGoals(coll, u, gs) ==
    LET n == FindOne(coll, u) IN
    IF n = 0 THEN Append(coll, [userId |-> u, goals |-> gs])
    ELSE [coll EXCEPT ![n].goals = @ \o gs]

\* update_one({"userId": u}, {"$set": {"goals": gs}}, upsert=True): the list of
\* the first document of u is replaced; a document is inserted when u has none
UpsertGoals(coll, u, gs) ==
    LET n == FindOne(coll, u) IN
    IF n = 0 THEN Append(coll, [userId |-> u, goals |-> gs])
    ELSE [coll EXCEPT ![n].goals = gs]

\* set_user_goals: the list is stored as it is given
set_user_goals(userId, gs) ==
    /\ goals' = UpsertGoals(goals, userId, gs)
    /\ goalCall' = [op |-> "set_user_goals", userId |-> userId, goals |-> gs, code |-> 201]
    /\ UNCHANGED <<linkReqs, rearrangeReqs, call>>

\* filtered_goals: the stripped entries that are not blank
FilteredGoals(gs) ==
    LET kept == SelectSeq(gs, LAMBDA goal : goal # <<>> /\ Strip(goal) # <<>>)
    IN  [n \in 1..Len(kept) |-> Strip(kept[n])]

\* manage_goals: an empty list and a list of blank entries are refused
manage_goals(userId, gs) ==
    /\ IF gs = <<>> \/ FilteredGoals(gs) = <<>>
       THEN /\ goalCall' = [op |-> "manage_goals", userId |-> userId, goals |-> gs,
                            code |-> 400]
            /\ UNCHANGED goals
       ELSE /\ goals' = UpsertGoals(goals, userId, FilteredGoals(gs))
            /\ goalCall' = [op |-> "manage_goals", userId |-> userId, goals |-> gs,
                            code |-> 200]
    /\ UNCHANGED <<linkReqs, rearrangeReqs, call>>

\* ------------------------------------------------------- calls of the parsers

\* parse_json_from_response is called with a value
call_parse_json_from_response(input) ==
    /\ call' = [fn |-> "parse_json_from_response", input |-> input,
                outcome |-> ParseJsonOutcome(input)]
    /\ UNCHANGED <<goals, goalCall, linkReqs, rearrangeReqs>>

\* parse_agent_response_to_tasks is called with a text
call_parse_agent_response_to_tasks(text) ==
    /\ call' = [fn |-> "parse_agent_response_to_tasks", input |-> Text(text),
                outcome |-> parse_agent_response_to_tasks(text)]
    /\ UNCHANGED <<goals, goalCall, linkReqs, rearrangeReqs>>

\* ------------------------------------------------ messages and model output

\* str.lower() on the words the messages use
LowerWord(w) ==
    CASE w = "Updated" -> "updated"
      [] w = "Share" -> "share"
      [] w = "SHARE" -> "share"
      [] w = "TASKS" -> "tasks"
      [] OTHER -> w
Lower(s) == [n \in 1..Len(s) |-> IF s[n].t = "word" THEN W(LowerWord(s[n].v)) ELSE s[n]]

\* sub in s: sub occurs in s as a run of consecutive tokens
Contains(s, sub) ==
    \E i \in 1..(Len(s) - Len(sub) + 1) : SubSeq(s, i, i + Len(sub) - 1) = sub

\* s.startswith(prefix)
StartsWith(s, prefix) ==
    Len(s) >= Len(prefix) /\ SubSeq(s, 1, Len(prefix)) = prefix

UpdatedTheGoals == <<W("updated"), SP, W("the"), SP, W("goals")>>
ShareTheRevisedTasks == <<W("share"), SP, W("the"), SP, W("revised"), SP, W("tasks")>>
ShareTasks == <<W("share"), SP, W("tasks")>>

\* "Updated the name of the agent to ", with its trailing space
NamePrefix ==
    <<W("Updated"), SP, W("the"), SP, W("name"), SP, W("of"), SP, W("the"), SP,
      W("agent"), SP, W("to"), SP>>

\* the phrases looked for in the message as it was typed
CaseSensitiveMode(user_message) ==
    /\ user_message # <<>>
    /\ \/ Contains(user_message, UpdatedTheGoals)
       \/ Contains(user_message, ShareTheRevisedTasks)
       \/ Contains(user_message, ShareTasks)

\* is_task_assignment_mode; an absent message and an empty one are both <<>>
is_task_assignment_mode(user_message) ==
    /\ user_message # <<>>
    /\ \/ Contains(Lower(user_message), UpdatedTheGoals)
       \/ Contains(Lower(user_message), ShareTheRevisedTasks)
       \/ Contains(Lower(user_message), ShareTasks)

\* the greeting that names no agent
GreetingWithoutName(message) ==
    <<W("Hello!"), SP, W("How"), SP, W("can"), SP, W("I"), SP, W("help"), SP,
      W("you"), SP, W("today?")>>

\* handle_agent_name_update: the greeting with the stripped rest of the message
handle_agent_name_update(message) ==
    IF StartsWith(message, NamePrefix)
    THEN <<W("Hello!"), SP, W("I'm"), SP>>
         \o Strip(SubSeq(message, Len(NamePrefix) + 1, Len(message)))
         \o <<P("."), SP, W("How"), SP, W("can"), SP, W("I"), SP, W("help"), SP,
              W("you"), SP, W("today?")>>
    ELSE <<W("Hello!"), SP, W("How"), SP, W("can"), SP, W("I"), SP, W("help"), SP,
           W("you"), SP, W("today?")>>

\* the messages a request carries
Msg ==
    [None |-> <<>>,
     Share |-> <<W("share"), SP, W("tasks"), SP, W("please")>>,
     Updated |-> <<W("Updated"), SP, W("the"), SP, W("goals"), P("."), SP, W("Share"), SP, W("the"), SP, W("revised"), SP, W("tasks"), P(".")>>,
     Question |-> <<W("What"), SP, W("skills"), SP, W("do"), SP, W("I"), SP, W("need"), P("?")>>,
     Rename |-> NamePrefix \o <<W("Bob")>>,
     DataScience |-> <<W("What"), SP, W("skills"), SP, W("do"), SP, W("I"), SP, W("need"), SP, W("for"), SP, W("a"), SP, W("data"), SP, W("science"), SP, W("role"), P("?")>>,
     Upper |-> <<W("SHARE"), SP, W("TASKS")>>,
     Near |-> <<W("share"), SP, W("task")>>,
     RenameShare |-> NamePrefix \o <<SP, W("share"), SP, W("tasks"), SP>>]
Messages == {Msg.None, Msg.Share, Msg.Updated, Msg.Question, Msg.Rename}

\* the tokens of a JSON object {"id": <idTok>, "title": "<title>"}
ObjToks(idTok, title) ==
    <<P("{"), Q("id"), P(":"), SP, idTok, P(","), SP, Q("title"), P(":"), SP,
      Q(title), P("}")>>

\* final answers of the model
Tx ==
    [Fenced |-> <<BT, W("json"), NL, P("[")>> \o ObjToks(Q("a1"), "Intro") \o <<P(",")>> \o ObjToks(Q("t9"), "Fake") \o <<P("]"), NL, BT>>,
     Prose |-> <<W("Here"), SP, W("you"), SP, W("go"), P(":"), SP, P("[")>> \o ObjToks(Q("22"), "Loops") \o <<P(","), SP>> \o ObjToks(Q("a1"), "Intro") \o <<P("]"), SP, W("Enjoy")>>,
     NumId |-> <<P("[")>> \o ObjToks(N("22"), "Loops") \o <<P("]")>>,
     Dup |-> <<P("[")>> \o ObjToks(Q("a1"), "Intro") \o <<P(","), NL>> \o ObjToks(Q("a1"), "Intro") \o <<P("]")>>,
     NoId |-> <<P("["), P("{"), Q("title"), P(":"), Q("Intro"), P("}"), P("]")>>,
     Garbage |-> <<W("Sorry"), P(","), SP, W("nothing"), SP, W("fits")>>,
     Object |-> ObjToks(Q("a1"), "Intro"),
     Truncated |-> <<P("[")>> \o ObjToks(Q("a1"), "Intro") \o <<P(",")>>,
     Scalars |-> <<P("["), Q("a1"), P(","), SP, N("22"), P("]")>>,
     Numbered |-> <<N("1"), P("."), SP, W("Learn"), SP, W("Python"), NL, N("2"), P("."), SP, W("Build"), SP, W("an"), SP, W("API"), NL, N("3"), P("."), SP, W("Deploy"), SP, W("to"), SP, W("cloud")>>,
     Empty |-> <<>>]

ModelTexts == {Tx[f] : f \in DOMAIN Tx}

\* the content of the model's final message: a string, or (Gemini) a list of parts
ModelContents ==
    {[isList |-> FALSE, parts |-> <<t>>] : t \in ModelTexts}
    \cup {[isList |-> TRUE, parts |-> <<<<NL, W("Keep")>>, <<SP, W("going"), NL>>>>]}

RECURSIVE Join(_, _)
Join(parts, n) == IF n > Len(parts) THEN <<>> ELSE parts[n] \o Join(parts, n + 1)

\* final_response: the content, a list of parts joined and stripped
FinalResponse(content) ==
    IF content.isList THEN Strip(Join(content.parts, 1)) ELSE content.parts[1]

\* str(e) of the exceptions the external calls raise
KeyMissing == <<W("GOOGLE_API_KEY"), SP, W("not"), SP, W("found")>>
CallFailed == <<W("connection"), SP, W("refused")>>

\* ------------------------------- the validation pipeline (learning_agent.py)

\* valid_task_ids: str(_id) of the task documents of the fixed project
ValidTaskIds(taskDocs) == {t._id : t \in {d \in taskDocs : d.project_id = FixedProject}}

\* a Validator that compares the decoded id itself, so that only string ids match
ValidateStringIds(parsed_tasks, valid_task_ids) ==
    SelectSeq(parsed_tasks,
              LAMBDA task : /\ Get(task, "id", JStr("")).k = "str"
                            /\ Get(task, "id", JStr("")).v \in valid_task_ids)

\* a Validator that lets every candidate pass
ValidateNothing(parsed_tasks, valid_task_ids) == parsed_tasks

\* Validator: the candidates whose str(task.get("id", "")) is a valid task id
Validate(parsed_tasks, valid_task_ids) ==
    SelectSeq(parsed_tasks, LAMBDA task : PyStr(Get(task, "id", JStr(""))) \in valid_task_ids)

\* assigned_ids: str(taskId) of the sub-records whose taskId is not empty
AssignedIds(assignment) == {e.taskId : e \in {x \in Range(assignment.tasks) : x.taskId # ""}}

\* a Duplicate Filter that reads the first assignment document of the
\* collection, whoever its user is
DuplicateFilterFirstDocument(validated_tasks, coll, user_id) ==
    IF coll # <<>> /\ coll[1].tasks # <<>>
    THEN SelectSeq(validated_tasks,
                   LAMBDA task : PyStr(Get(task, "id", None)) \notin AssignedIds(coll[1]))
    ELSE validated_tasks

\* Duplicate Filter: with an assignment document that has tasks, the candidates
\* whose str(task.get("id")) is not assigned; every candidate otherwise
DuplicateFilter(validated_tasks, coll, user_id) ==
    LET n == FindOne(coll, user_id) IN
    IF n # 0 /\ coll[n].tasks # <<>>
    THEN SelectSeq(validated_tasks,
                   LAMBDA task : PyStr(Get(task, "id", None)) \notin AssignedIds(coll[n]))
    ELSE validated_tasks

\* project_name: the name of the fixed project's document, or the default
ProjectName(projectDocs) ==
    IF \E p \in projectDocs : p._id = FixedProject
    THEN (CHOOSE p \in projectDocs : p._id = FixedProject).name
    ELSE "Project School"

\* an Enricher that gives the identifier in its string form
EnrichWithStringIds(validated_tasks, project_name) ==
    [n \in 1..Len(validated_tasks) |->
        [taskId |-> JStr(PyStr(Get(validated_tasks[n], "id", None))),
         taskName |-> Get(validated_tasks[n], "title", None),
         projectId |-> FixedProject,
         projectName |-> project_name]]

\* Enricher: one record per candidate, its id and title as decoded
Enrich(validated_tasks, project_name) ==
    [n \in 1..Len(validated_tasks) |->
        [taskId |-> Get(validated_tasks[n], "id", None),
         taskName |-> Get(validated_tasks[n], "title", None),
         projectId |-> FixedProject,
         projectName |-> project_name]]

\* "I've selected <n> personalized tasks for your learning path. Here they are:"
Summary(n) ==
    <<W("I've"), SP, W("selected"), SP, N(ToString(n)), SP, W("personalized"), SP,
      W("tasks"), SP, W("for"), SP, W("your"), SP, W("learning"), SP, W("path"),
      P("."), SP, W("Here"), SP, W("they"), SP, W("are"), P(":")>>

\* "An error occurred: <str(e)>"
AnErrorOccurred(msg) ==
    <<W("An"), SP, W("error"), SP, W("occurred"), P(":"), SP>> \o msg

\* the values before any request: of result (what run_learning_agent hands
\* back: kind is "returned" for a returned dict and "raised" for an exception
\* leaving the function; hasTasks tells whether the dict has a tasks key), of
\* the request, the locals and the response of the agent endpoint, and of the
\* records of the last handler and parser calls
Idle ==
    [result |-> [kind |-> "none", response_text |-> <<>>, status |-> "", hasTasks |-> FALSE, tasks |-> <<>>],
     req |-> [userId |-> "", message |-> <<>>],
     loc |-> [mode |-> "none", failed |-> "none", final_response |-> <<>>, parsed_tasks |-> <<>>, valid_task_ids |-> {}, validated_tasks |-> <<>>, filtered_tasks |-> <<>>],
     ep |-> [agent_response |-> <<>>, status |-> "", tasks |-> <<>>, inserted_id |-> 0],
     resp |-> [kind |-> "none", id |-> 0, userId |-> "", userType |-> "", message |-> <<>>, timestamp |-> 0, tasks |-> <<>>, status |-> ""],
     http |-> [op |-> "none", code |-> 0],
     goalCall |-> [op |-> "none", userId |-> "", goals |-> <<>>, code |-> 0],
     linkReqs |-> <<>>,
     rearrangeReqs |-> <<>>,
     call |-> [fn |-> "none", input |-> <<>>, outcome |-> <<>>]]

\* a task assignment result that reports an empty list as an error
TaskAssignmentResultOrError(enriched_tasks) ==
    [kind |-> "returned", response_text |-> Summary(Len(enriched_tasks)),
     status |-> IF enriched_tasks = <<>> THEN "error" ELSE "success",
     hasTasks |-> TRUE, tasks |-> enriched_tasks]

\* the dict returned in task assignment mode
TaskAssignmentResult(enriched_tasks) ==
    [kind |-> "returned", response_text |-> Summary(Len(enriched_tasks)),
     status |-> "success", hasTasks |-> TRUE, tasks |-> enriched_tasks]

\* the dict returned in conversational mode
ConversationalResult(final_response) ==
    [kind |-> "returned", response_text |-> final_response, status |-> "success",
     hasTasks |-> FALSE, tasks |-> <<>>]

\* an except clause that lets the exception leave the function
Reraise(msg) ==
    [kind |-> "raised", response_text |-> msg, status |-> "", hasTasks |-> FALSE,
     tasks |-> <<>>]

\* the except clause of run_learning_agent: every exception becomes a dict
OnException(msg) ==
    [kind |-> "returned", response_text |-> AnErrorOccurred(msg), status |-> "error",
     hasTasks |-> FALSE, tasks |-> <<>>]

\* a failed read that is taken for an empty project: the candidates go on
\* unchecked
FailOpen(parsed_tasks, msg) ==
    TaskAssignmentResult(Enrich(parsed_tasks, "Project School"))

\* a failed read of the project's tasks raises inside the try block
OnTasksReadFailure(parsed_tasks, msg) == OnException(msg)

\* --------------------------------------- the agent endpoint (routers/chat.py)

VARIABLES
    pc,       \* where the agent request in flight is suspended
    req,      \* the request: [userId, message]
    loc,      \* locals of run_learning_agent
    result,   \* what run_learning_agent handed back to chat_with_agent
    ep,       \* locals of chat_with_agent: [agent_response, status, tasks]
    resp      \* what the caller of the endpoint receives

agentVars == <<pc, req, loc, result, ep, resp>>
vars == <<tasks, projects, agents, assignments, chats, http, goals, goalCall,
          linkReqs, rearrangeReqs, call, pc, req, loc, result, ep, resp>>


\* chat_with_agent after run_learning_agent came back: the response text and
\* the status of the dict, and the tasks the numbered-list parser finds in the
\* text when it looks like a task list; the except clause when anything raised
EndpointFromResult(r) ==
    IF r.kind = "raised"
    THEN [Idle.ep EXCEPT !.agent_response = AnErrorOccurred(r.response_text),
                      !.status = "error"]
    ELSE IF ~is_task_list_response(r.response_text)
    THEN [Idle.ep EXCEPT !.agent_response = r.response_text, !.status = r.status]
    ELSE LET parsed == parse_agent_response_to_tasks(r.response_text) IN
         IF parsed.raised
         THEN [Idle.ep EXCEPT !.agent_response = AnErrorOccurred(<<W("UnboundLocalError")>>),
                           !.status = "error"]
         ELSE [Idle.ep EXCEPT !.agent_response = r.response_text, !.status = r.status,
                           !.tasks = parsed.tasks]

\* run_learning_agent ends with dict r: back in chat_with_agent, up to the insert
Returned(r) ==
    /\ result' = r
    /\ ep' = EndpointFromResult(r)
    /\ pc' = "insert"

\* chat_with_agent is called: the name-update path, or run_learning_agent up
\* to its first read
chat_with_agent(userId, message) ==
    /\ pc = "idle"
    /\ req' = [userId |-> userId, message |-> message]
    /\ loc' = Idle.loc
    /\ resp' = Idle.resp
    /\ IF message # <<>> /\ StartsWith(message, NamePrefix)
       THEN /\ ep' = [Idle.ep EXCEPT !.agent_response = handle_agent_name_update(message),
                                  !.status = "success"]
            /\ result' = Idle.result
            /\ pc' = "insert"
       ELSE /\ ep' = Idle.ep
            /\ result' = Idle.result
            /\ pc' = "agent_read"
    /\ UNCHANGED <<storeVars, auxVars, http>>

\* db.agents.find_one completes; then the model client is set up and the mode
\* is chosen, up to the call of the model.  keySet tells whether GOOGLE_API_KEY
\* is in the environment of the process.
agents_find_one(readOk, keySet, setupOk) ==
    /\ pc = "agent_read"
    /\ IF ~readOk
       THEN /\ loc' = [loc EXCEPT !.failed = "agent_read"]
            /\ Returned(OnException(CallFailed))
       ELSE IF ~keySet
       THEN /\ loc' = [loc EXCEPT !.failed = "api_key"]
            /\ Returned(OnException(KeyMissing))
       ELSE IF ~setupOk
       THEN /\ loc' = [loc EXCEPT !.failed = "setup"]
            /\ Returned(OnException(CallFailed))
       ELSE /\ loc' = [loc EXCEPT !.mode =
                          IF is_task_assignment_mode(req.message)
                          THEN "task_assignment" ELSE "conversational"]
            /\ pc' = "invoke"
            /\ UNCHANGED <<result, ep>>
    /\ UNCHANGED <<storeVars, auxVars, http, req, resp>>

\* agent.ainvoke completes with the model's final message, or raises
agent_ainvoke(callOk, content) ==
    /\ pc = "invoke"
    /\ IF ~callOk
       THEN /\ loc' = [loc EXCEPT !.failed = "invoke"]
            /\ Returned(OnException(CallFailed))
       ELSE IF loc.mode = "task_assignment"
       THEN /\ loc' = [loc EXCEPT !.final_response = FinalResponse(content),
                                  !.parsed_tasks =
                                      parse_json_from_response(FinalResponse(content))]
            /\ pc' = "tasks_read"
            /\ UNCHANGED <<result, ep>>
       ELSE /\ loc' = [loc EXCEPT !.final_response = FinalResponse(content)]
            /\ Returned(ConversationalResult(FinalResponse(content)))
    /\ UNCHANGED <<storeVars, auxVars, http, req, resp>>

\* db.tasks.find(...).to_list completes: the Validator runs
tasks_to_list(readOk) ==
    /\ pc = "tasks_read"
    /\ IF ~readOk
       THEN /\ loc' = [loc EXCEPT !.failed = "tasks_read"]
            /\ Returned(OnTasksReadFailure(loc.parsed_tasks, CallFailed))
       ELSE /\ loc' = [loc EXCEPT !.valid_task_ids = ValidTaskIds(tasks),
                                  !.validated_tasks =
                                      Validate(loc.parsed_tasks, ValidTaskIds(tasks))]
            /\ pc' = "assign_read"
            /\ UNCHANGED <<result, ep>>
    /\ UNCHANGED <<storeVars, auxVars, http, req, resp>>

\* db.assignments.find_one completes: the Duplicate Filter runs
assignments_find_one(readOk) ==
    /\ pc = "assign_read"
    /\ IF ~readOk
       THEN /\ loc' = [loc EXCEPT !.failed = "assign_read"]
            /\ Returned(OnException(CallFailed))
       ELSE /\ loc' = [loc EXCEPT !.filtered_tasks =
                          DuplicateFilter(loc.validated_tasks, assignments, req.userId)]
            /\ pc' = "project_read"
            /\ UNCHANGED <<result, ep>>
    /\ UNCHANGED <<storeVars, auxVars, http, req, resp>>

\* a last step of the pipeline that also stores the recommendations as an
\* assignment document of the user
projects_find_one_and_attach(readOk) ==
    /\ pc = "project_read"
    /\ UNCHANGED loc
    /\ Returned(TaskAssignmentResult(Enrich(loc.filtered_tasks, ProjectName(projects))))
    /\ assignments' =
         Append(assignments,
                [userId |-> req.userId,
                 tasks |-> [n \in 1..Len(loc.filtered_tasks) |->
                              TaskAssignment(PyStr(loc.filtered_tasks[n].id), "admin", NoSeq)]])
    /\ UNCHANGED <<tasks, projects, agents, chats, auxVars, http, req, resp>>

\* db.projects.find_one completes: the Enricher runs and the dict is returned
projects_find_one(readOk) ==
    /\ pc = "project_read"
    /\ IF ~readOk
       THEN /\ loc' = [loc EXCEPT !.failed = "project_read"]
            /\ Returned(OnException(CallFailed))
       ELSE /\ UNCHANGED loc
            /\ Returned(TaskAssignmentResult(Enrich(loc.filtered_tasks, ProjectName(projects))))
    /\ UNCHANGED <<storeVars, auxVars, http, req, resp>>

\* a chat record that keeps no message
EmptyChatDoc(userId, agent_response, n) ==
    [_id |-> n, userId |-> userId, userType |-> "agent", message |-> <<>>,
     timestamp |-> n]

\* the chat record chat_with_agent stores; the clock is the count of records
AgentChatDoc(userId, agent_response, n) ==
    [_id |-> n, userId |-> userId, userType |-> "agent", message |-> agent_response,
     timestamp |-> n]

\* db.chats.insert_one completes; it is outside the try block, so its
\* exception leaves the handler
chats_insert_one(writeOk) ==
    /\ pc = "insert"
    /\ IF ~writeOk
       THEN /\ resp' = [Idle.resp EXCEPT !.kind = "exception"]
            /\ pc' = "done"
            /\ UNCHANGED <<chats, ep>>
       ELSE /\ chats' = Append(chats, AgentChatDoc(req.userId, ep.agent_response,
                                                   Len(chats) + 1))
            /\ ep' = [ep EXCEPT !.inserted_id = Len(chats) + 1]
            /\ pc' = "reread"
            /\ UNCHANGED resp
    /\ UNCHANGED <<tasks, projects, agents, assignments, auxVars, http, req, loc, result>>

\* db.chats.find_one on the inserted id completes and the handler returns the
\* serialized record with the tasks and the status
chats_find_one(readOk) ==
    /\ pc = "reread"
    /\ IF ~readOk
       THEN resp' = [Idle.resp EXCEPT !.kind = "exception"]
       ELSE LET created_chat == CHOOSE c \in Range(chats) : c._id = ep.inserted_id IN
            resp' = [kind |-> "ok", id |-> created_chat._id,
                     userId |-> created_chat.userId,
                     userType |-> created_chat.userType,
                     message |-> created_chat.message,
                     timestamp |-> created_chat.timestamp,
                     tasks |-> ep.tasks, status |-> ep.status]
    /\ pc' = "done"
    /\ UNCHANGED <<storeVars, auxVars, http, req, loc, result, ep>>

\* the caller has its answer; the next request may come
chat_with_agent_return ==
    /\ pc = "done"
    /\ pc' = "idle"
    /\ req' = Idle.req
    /\ loc' = Idle.loc
    /\ result' = Idle.result
    /\ ep' = Idle.ep
    /\ resp' = Idle.resp
    /\ UNCHANGED <<storeVars, auxVars, http>>

\* ------------------------------------------------------- specifications


\* the service starts on an empty database with no request in flight
Init ==
    /\ tasks = {}
    /\ projects = {}
    /\ agents = <<>>
    /\ assignments = <<>>
    /\ chats = <<>>
    /\ http = Idle.http
    /\ goals = <<>>
    /\ goalCall = Idle.goalCall
    /\ linkReqs = Idle.linkReqs
    /\ rearrangeReqs = Idle.rearrangeReqs
    /\ call = Idle.call
    /\ pc = "idle"
    /\ req = Idle.req
    /\ loc = Idle.loc
    /\ result = Idle.result
    /\ ep = Idle.ep
    /\ resp = Idle.resp

\* the values the requests carry
SeqInputs == {NoSeq} \cup (1..MaxSeq)
\* most entries of the tasks list of a rearrange request
MaxUpdates == 1
RearrangeInputs ==
    UNION {[1..n -> [taskId : {"a1", ""}, sequenceId : SeqInputs]] : n \in 0..MaxUpdates}

\* the messages of the agent requests the agent specification explores
AgentMessages == {Msg.Share, Msg.Question, Msg.Rename}

\* the final messages the agent specification lets the model give: any of them
\* to a task assignment prompt; prose, a numbered list or a list of parts to a
\* conversational prompt
Modes == {"none", "task_assignment", "conversational"}
AgentContents ==
    [mode \in Modes |->
        IF mode = "conversational"
        THEN {c \in ModelContents : c.isList \/ c.parts[1] \in {Tx.Garbage, Tx.Numbered}}
        ELSE ModelContents]

AllContents == [mode \in Modes |-> ModelContents]

\* the steps of an agent request; contents gives the final messages
\* of the model for each mode, cap the number of chat records after which no
\* further request is made
AgentSteps(users, messages, contents, cap) ==
    \/ \E u \in users, m \in messages : Len(chats) < cap /\ chat_with_agent(u, m)
    \/ \E readOk \in BOOLEAN, keySet \in BOOLEAN, setupOk \in BOOLEAN :
         agents_find_one(readOk, keySet, setupOk)
    \/ \E callOk \in BOOLEAN, c \in contents[loc.mode] : agent_ainvoke(callOk, c)
    \/ \E readOk \in BOOLEAN : tasks_to_list(readOk)
    \/ \E readOk \in BOOLEAN : assignments_find_one(readOk)
    \/ \E readOk \in BOOLEAN : projects_find_one(readOk)
    \/ \E writeOk \in BOOLEAN : chats_insert_one(writeOk)
    \/ \E readOk \in BOOLEAN : chats_find_one(readOk)
    \/ chat_with_agent_return

\* the handlers of the tasks router, each run to completion
TaskRouterSteps ==
    \/ \E id \in TaskObjectIds, pid \in {FixedProject, OtherProject}, title \in Inputs.Titles :
         create_task(id, pid, title) /\ UNCHANGED <<agentVars, auxVars>>
    \/ \E t \in Inputs.TaskIdInputs, st \in Inputs.Statuses :
         update_task_status(t, st) /\ UNCHANGED <<agentVars, auxVars>>
    \/ \E u \in Users, t \in Inputs.TaskIdInputs, by \in Inputs.AssignedBys, q \in SeqInputs :
         link_user_to_task(u, t, by, q) /\ UNCHANGED <<agentVars, auxVars>>
    \/ \E u \in Users, t \in Inputs.TaskIdInputs, b \in Inputs.OptBools, q \in SeqInputs,
          c \in Inputs.CommentInputs, by \in Inputs.CommentBys :
         update_user_task_assignment(u, t, b, q, c, by) /\ UNCHANGED <<agentVars, auxVars>>
    \/ \E u \in Users \cup {""}, ups \in RearrangeInputs :
         rearrange_user_tasks(u, ups) /\ UNCHANGED <<agentVars, auxVars>>
    \/ \E u \in Users \cup {""}, t \in Inputs.TaskIdInputs \cup {""} :
         delete_user_task(u, t) /\ UNCHANGED <<agentVars, auxVars>>
    \/ \E u \in Users, t \in Inputs.TaskIdInputs, c \in Inputs.CommentInputs, by \in Inputs.CommentBys \ {"None"} :
         save_task_comment(u, t, c, by) /\ UNCHANGED <<agentVars, auxVars>>
    \/ \E u \in Users \cup {""}, t \in Inputs.TaskIdInputs \cup {""}, b \in Inputs.OptBools :
         update_task_completion_status(u, t, b) /\ UNCHANGED <<agentVars, auxVars>>

\* the other handlers that write to the store
OtherSteps ==
    \/ \E id \in ProjectObjectIds, name \in Inputs.ProjectNames :
         create_new_project(id, name) /\ UNCHANGED <<agentVars, auxVars>>
    \/ \E u \in Users, name \in Inputs.AgentNames :
         manage_agent(u, name) /\ UNCHANGED <<agentVars, auxVars>>

\* most candidates in an encoded list, most lines in a text given to the
\* numbered-list parser
MaxCands == 2
MaxLines == 3

\* json.dumps of a list of {"id", "title"} objects
RECURSIVE EncodeItems(_, _)
EncodeItems(cands, n) ==
    IF n > Len(cands) THEN <<>>
    ELSE (IF n > 1 THEN <<P(","), SP>> ELSE <<>>)
         \o ObjToks(Q(cands[n].id.v), cands[n].title.v) \o EncodeItems(cands, n + 1)
Encode(cands) == <<P("[")>> \o EncodeItems(cands, 1) \o <<P("]")>>

\* a markdown code fence around a text, with or without the json tag
Wrap(w, t) ==
    CASE w = "fence" -> <<BT, NL>> \o t \o <<NL, BT>>
      [] w = "json" -> <<BT, W("json"), NL>> \o t \o <<NL, BT>>
      [] OTHER -> t

\* prose around a text: none, plain words, or words with a bracketed remark
Surround(p, t) ==
    CASE p = "plain" -> <<W("Here"), SP, W("you"), SP, W("go"), P(":"), SP>> \o t
                        \o <<SP, W("Enjoy")>>
      [] p = "bracketed" -> <<W("See"), SP, P("["), W("note"), P("]"), P(":"), SP>> \o t
      [] OTHER -> t

Candidates == {JObj(JStr(i), JStr(t)) : i \in {"a1", "t9"}, t \in {"Intro", "Fake"}}
CandidateLists == UNION {[1..n -> Candidates] : n \in 0..MaxCands}

\* the values parse_json_from_response is called with
JsonParserInputs ==
    {Text(Surround(p, Wrap(w, Encode(c)))) : c \in CandidateLists, w \in Inputs.Wraps, p \in Inputs.Proses}
    \cup {Text(t) : t \in ModelTexts} \cup {NotText}

\* the lines of the texts parse_agent_response_to_tasks is called with
NumberedLines ==
    <<<<N("1"), P("."), SP, W("Learn"), SP, W("Python")>>,
      <<N("2"), P("."), SP, W("Build"), SP, W("an"), SP, W("API")>>,
      <<N("3"), P("."), SP, W("Deploy"), SP, W("to"), SP, W("cloud")>>,
      <<SP, N("4"), P(")"), SP, W("Test"), SP>>,
      <<N("2"), P(".")>>,
      <<W("Intro"), P(":")>>,
      <<SP>>>>

RECURSIVE JoinLines(_, _)
JoinLines(ls, n) ==
    IF n > Len(ls) THEN <<>>
    ELSE (IF n > 1 THEN <<NL>> ELSE <<>>) \o ls[n] \o JoinLines(ls, n + 1)

NumberedTexts ==
    {JoinLines(ls, 1) : ls \in UNION {[1..n -> {NumberedLines[k] : k \in DOMAIN NumberedLines}] : n \in 0..MaxLines}}

\* one call of one of the two parsers with one of its inputs; the parsers keep
\* no state, so a behaviour holds one call
ParserSteps ==
    \/ \E x \in JsonParserInputs :
         /\ call = Idle.call
         /\ call_parse_json_from_response(x)
         /\ UNCHANGED <<storeVars, http, agentVars>>
    \/ \E t \in NumberedTexts :
         /\ call = Idle.call
         /\ call_parse_agent_response_to_tasks(t)
         /\ UNCHANGED <<storeVars, http, agentVars>>

\* concurrent link_user_to_task requests over a store with and without the tasks
LinkSteps ==
    \/ \E id \in {"a1", "22"} :
         create_task(id, FixedProject, "Intro") /\ UNCHANGED <<agentVars, auxVars>>
    \/ \E u \in Users, t \in Inputs.TaskIdInputs :
         link_request(u, t) /\ UNCHANGED <<agentVars, goals, goalCall, rearrangeReqs, call>>
    \/ \E n \in 1..Len(linkReqs) :
         link_find_task(n) /\ UNCHANGED <<agentVars, goals, goalCall, rearrangeReqs, call>>
    \/ \E n \in 1..Len(linkReqs) :
         link_update_one(n) /\ UNCHANGED <<agentVars, goals, goalCall, rearrangeReqs, call>>
    \/ \E n \in 1..Len(linkReqs) :
         link_upsert_insert(n) /\ UNCHANGED <<agentVars, goals, goalCall, rearrangeReqs, call>>

\* the tasks lists of the concurrent rearrange requests: the two orders of the
\* two tasks, one list whose first entry has no taskId, and the empty list
RearrangeOrders ==
    {<<[taskId |-> "a1", sequenceId |-> 1], [taskId |-> "22", sequenceId |-> 2]>>,
     <<[taskId |-> "a1", sequenceId |-> 2], [taskId |-> "22", sequenceId |-> 1]>>,
     <<[taskId |-> "", sequenceId |-> 1], [taskId |-> "22", sequenceId |-> NoSeq]>>,
     <<>>}

\* concurrent rearrange_user_tasks requests; the tasks are created and
\* assigned before the first of them arrives
RearrangeSteps ==
    \/ \E id \in TaskObjectIds :
         /\ rearrangeReqs = <<>>
         /\ create_task(id, FixedProject, "Intro")
         /\ UNCHANGED <<agentVars, auxVars>>
    \/ \E u \in Users, t \in TaskObjectIds :
         /\ rearrangeReqs = <<>>
         /\ u = "u2" => t = "a1"
         /\ Assigned(u, t, "admin", NoSeq)
         /\ UNCHANGED <<agentVars, auxVars>>
    \/ \E u \in {"u1", ""}, ups \in RearrangeOrders :
         rearrange_request(u, ups) /\ UNCHANGED <<agentVars, goals, goalCall, linkReqs, call>>
    \/ \E n \in 1..Len(rearrangeReqs) :
         rearrange_find_one(n) /\ UNCHANGED <<agentVars, goals, goalCall, linkReqs, call>>
    \/ \E n \in 1..Len(rearrangeReqs) :
         rearrange_update_one(n) /\ UNCHANGED <<agentVars, goals, goalCall, linkReqs, call>>

\* the goal texts and the goal lists the requests carry
GoalInputs == UNION {[1..n -> Inputs.GoalTexts] : n \in 0..MaxGoals}

\* the two lists the second user sets
OtherGoalInputs == {<<<<W("ml")>>, <<SP>>>>, <<<<SP, W("ai"), SP>>>>}

\* the handlers of the goals router that write: every list for the first user,
\* two lists for the second
GoalSteps ==
    \/ \E gs \in GoalInputs :
         set_user_goals("u1", gs) /\ UNCHANGED <<storeVars, http, agentVars>>
    \/ \E gs \in GoalInputs :
         manage_goals("u1", gs) /\ UNCHANGED <<storeVars, http, agentVars>>
    \/ \E gs \in OtherGoalInputs :
         set_user_goals("u2", gs) /\ UNCHANGED <<storeVars, http, agentVars>>

Next ==
    \/ AgentSteps(Users, Messages, AllContents, MaxChats)
    \/ TaskRouterSteps
    \/ OtherSteps
    \/ GoalSteps
    \/ ParserSteps
    \/ LinkSteps
    \/ RearrangeSteps

Spec == Init /\ [][Next]_vars

\* The assignment handlers of the tasks router, with create_task to give them
\* tasks.  The second user is assigned a task and has it removed; every other
\* request is made for the first user.
AssignmentSteps ==
    \/ \E id \in TaskObjectIds, title \in Inputs.Titles :
         create_task(id, FixedProject, title) /\ UNCHANGED <<agentVars, auxVars>>
    \/ \E t \in {"a1", "A1", "zz"}, q \in SeqInputs :
         link_user_to_task("u1", t, "admin", q) /\ UNCHANGED <<agentVars, auxVars>>
    \/ link_user_to_task("u2", "a1", "user", NoSeq) /\ UNCHANGED <<agentVars, auxVars>>
    \/ \E t \in {"a1", "A1"}, b \in Inputs.OptBools, q \in SeqInputs,
          c \in Inputs.CommentInputs, by \in Inputs.CommentBys :
         update_user_task_assignment("u1", t, b, q, c, by) /\ UNCHANGED <<agentVars, auxVars>>
    \/ \E u \in {"u1", ""}, ups \in RearrangeInputs :
         rearrange_user_tasks(u, ups) /\ UNCHANGED <<agentVars, auxVars>>
    \/ \E u \in Users, t \in {"a1", "A1", ""} :
         delete_user_task(u, t) /\ UNCHANGED <<agentVars, auxVars>>
    \/ \E t \in {"a1", "A1"}, c \in Inputs.CommentInputs :
         save_task_comment("u1", t, c, "user") /\ UNCHANGED <<agentVars, auxVars>>
    \/ \E t \in {"a1", "A1", ""}, b \in Inputs.OptBools :
         update_task_completion_status("u1", t, b) /\ UNCHANGED <<agentVars, auxVars>>

\* the arguments of a request to an assignment handler, kept in call
Request(fn, userId, taskId, isCompleted) ==
    [fn |-> fn, input |-> [userId |-> userId, taskId |-> taskId, isCompleted |-> isCompleted],
     outcome |-> <<>>]

\* The handlers that assign, complete and remove tasks, one request at a time,
\* with the arguments of the last request kept; tasks are created and updated
\* in between.  The first user is assigned every identifier; the second user
\* is assigned one task under either spelling of its identifier.
AssignSteps ==
    \/ \E id \in TaskObjectIds :
         create_task(id, FixedProject, "Intro") /\ UNCHANGED <<agentVars, auxVars>>
    \/ \E st \in Inputs.Statuses :
         update_task_status("a1", st) /\ UNCHANGED <<agentVars, auxVars>>
    \/ \E u \in Users, t \in Inputs.TaskIdInputs :
         /\ u = "u2" => t \in {"a1", "A1"}
         /\ link_user_to_task(u, t, "admin", NoSeq)
         /\ call' = Request("link_user_to_task", u, t, "None")
         /\ UNCHANGED <<agentVars, goals, goalCall, linkReqs, rearrangeReqs>>
    \/ \E b \in Inputs.OptBools :
         /\ update_user_task_assignment("u1", "a1", b, NoSeq, <<>>, "None")
         /\ call' = Request("update_user_task_assignment", "u1", "a1", b)
         /\ UNCHANGED <<agentVars, goals, goalCall, linkReqs, rearrangeReqs>>
    \/ \E u \in Users \cup {""}, t \in {"a1", "22", ""} :
         /\ u # "u1" => t = "a1"
         /\ delete_user_task(u, t)
         /\ call' = Request("delete_user_task", u, t, "None")
         /\ UNCHANGED <<agentVars, goals, goalCall, linkReqs, rearrangeReqs>>
    \/ \E b \in Inputs.OptBools :
         /\ update_task_completion_status("u1", "a1", b)
         /\ call' = Request("update_task_completion_status", "u1", "a1", b)
         /\ UNCHANGED <<agentVars, goals, goalCall, linkReqs, rearrangeReqs>>

SpecAssign == Init /\ [][AssignSteps]_vars

SpecTasks == Init /\ [][AssignmentSteps]_vars

SpecParse == Init /\ [][ParserSteps]_vars

SpecGoals == Init /\ [][GoalSteps]_vars

\* The agent endpoint, one request at a time and all for the first user, while
\* tasks and projects are created and tasks are assigned.
AgentStoreSteps ==
    \/ \E pid \in {FixedProject, OtherProject}, title \in Inputs.Titles :
         create_task("22", pid, title) /\ UNCHANGED <<agentVars, auxVars>>
    \/ \E title \in Inputs.Titles : create_task("a1", FixedProject, title) /\ UNCHANGED <<agentVars, auxVars>>
    \/ \E name \in Inputs.ProjectNames : create_new_project(FixedProject, name) /\ UNCHANGED <<agentVars, auxVars>>
    \/ \E u \in Users : Assigned(u, "a1", "admin", NoSeq) /\ UNCHANGED <<agentVars, auxVars>>

\* the requests that differ in their message only, over a store with and
\* without a task, an assignment and goals, and with earlier chat records
ModeMessages == {Msg[f] : f \in {"None", "Share", "Updated", "DataScience", "Upper", "Near", "Rename", "RenameShare"}}
ModeContents ==
    [mode \in Modes |->
        {[isList |-> FALSE, parts |-> <<t>>] :
            t \in IF mode = "task_assignment" THEN {Tx.Fenced}
                  ELSE {Tx.Garbage, Tx.Numbered,
                        JoinLines(<<NumberedLines[1], NumberedLines[2]>>, 1)}}]
ModeSteps ==
    \/ create_task("a1", FixedProject, "Intro") /\ UNCHANGED <<agentVars, auxVars>>
    \/ Assigned("u1", "a1", "admin", NoSeq) /\ UNCHANGED <<agentVars, auxVars>>
    \/ set_user_goals("u1", <<<<W("ml")>>>>) /\ UNCHANGED <<storeVars, http, agentVars>>
    \/ manage_agent("u1", <<W("Al")>>) /\ UNCHANGED <<agentVars, auxVars>>
    \/ AgentSteps({"u1"}, ModeMessages, ModeContents, MaxChats + 1)

SpecMode == Init /\ [][ModeSteps]_vars

SpecLink == Init /\ [][LinkSteps]_vars

SpecRearrange == Init /\ [][RearrangeSteps]_vars

SpecAgent == Init /\ [][AgentStoreSteps \/ AgentSteps({"u1"}, AgentMessages, AgentContents, MaxChats)]_vars

\* ------------------------------------------------------------- properties

\* the identifiers of the tasks of the fixed project, as the task store holds them
Authoritative == {d._id : d \in {t \in tasks : t.project_id = FixedProject}}

\* the task identifiers in the assignment documents of user u
Held(u) ==
    {e.taskId : e \in UNION {Range(d.tasks) : d \in {x \in Range(assignments) : x.userId = u}}}

\* the identifier of a candidate in its string form; "" when it has none
IdText(c) == IF c.id = Absent THEN "" ELSE PyStr(c.id)

\* the j-th smallest element of a set of positions
Kth(K, j) == CHOOSE n \in K : Cardinality({m \in K : m <= n}) = j

\* out is the subsequence of cands at the positions K, in their order
IsSelection(out, cands, K) ==
    /\ Len(out) = Cardinality(K)
    /\ \A j \in 1..Len(out) : out[j] = cands[Kth(K, j)]

\* the endpoint has answered a request that ran in the given mode with no
\* external call failing
Answered(mode) ==
    /\ pc = "done"
    /\ resp.kind = "ok"
    /\ loc.mode = mode
    /\ loc.failed = "none"

\* C1: the task identifiers inside one user's assignment tasks array are
\* pairwise distinct in every state the assignment handlers can reach.
C1_DistinctTaskIds ==
    \A d \in Range(assignments) :
        \A i, j \in 1..Len(d.tasks) : i # j => d.tasks[i].taskId # d.tasks[j].taskId

\* C2: for a request in task assignment mode the endpoint returns the enriched
\* list run_learning_agent produced, with its summary string and its status.
C2_EndpointReturnsEnriched ==
    Answered("task_assignment") =>
        /\ resp.tasks = result.tasks
        /\ resp.message = result.response_text
        /\ resp.status = result.status

\* C3: no task the endpoint returns has an identifier outside the identifiers
\* of the tasks of the fixed project.
C3_NoForeignTask ==
    (pc = "done" /\ resp.kind = "ok") =>
        \A n \in 1..Len(resp.tasks) : resp.tasks[n].taskId \in Authoritative

\* C4: the Validator outputs exactly the parsed candidates whose identifier is
\* in the set read from the task store for the fixed project, in their order.
C4_ValidatorStep ==
    (pc = "tasks_read" /\ pc' = "assign_read") =>
        IsSelection(loc'.validated_tasks, loc.parsed_tasks,
                    {n \in 1..Len(loc.parsed_tasks) :
                        IdText(loc.parsed_tasks[n]) \in Authoritative})
C4_Validator == [][C4_ValidatorStep]_vars

\* the Validator kept one of two candidates
C4_Witness ==
    /\ pc = "assign_read"
    /\ Len(loc.parsed_tasks) = 2
    /\ Len(loc.validated_tasks) = 1

\* C5: the Duplicate Filter outputs exactly the validated candidates whose
\* identifier is not among the task identifiers of the user's assignment as
\* read, in their order; with no document or no tasks every candidate passes.
C5_DuplicateFilterStep ==
    (pc = "assign_read" /\ pc' = "project_read") =>
        IsSelection(loc'.filtered_tasks, loc.validated_tasks,
                    {n \in 1..Len(loc.validated_tasks) :
                        IdText(loc.validated_tasks[n]) \notin Held(req.userId)})
C5_DuplicateFilter == [][C5_DuplicateFilterStep]_vars

\* the Duplicate Filter removed one of two validated candidates
C5_Witness ==
    /\ pc = "project_read"
    /\ Len(loc.validated_tasks) = 2
    /\ Len(loc.filtered_tasks) = 1

\* C6: every request to the endpoint ends with a well-formed result whose
\* status is success or error, whichever external call fails.
C6_AlwaysWellFormed ==
    pc = "done" => (resp.kind = "ok" /\ resp.status \in {"success", "error"})

\* C7: run_learning_agent never raises; a failure of the agent read, of the
\* model client setup, of the model call or of a store read of the pipeline
\* becomes a returned result with status "error" and a readable text.
C7_NeverRaises ==
    /\ result.kind # "raised"
    /\ loc.failed # "none" =>
        /\ result.kind = "returned"
        /\ result.status = "error"
        /\ \E msg \in {CallFailed, KeyMissing} :
             result.response_text = AnErrorOccurred(msg)

\* the API key was missing and the request was answered
C7_Witness ==
    /\ loc.failed = "api_key"
    /\ result.status = "error"
    /\ resp.kind = "ok"

\* C8: when the read of the project's tasks fails, the result carries no task
\* and no parsed candidate reaches the caller.
C8_FailsClosed ==
    loc.failed = "tasks_read" =>
        /\ result.kind = "returned"
        /\ result.tasks = <<>>
        /\ ep.tasks = <<>>
        /\ resp.tasks = <<>>

\* the read failed with candidates parsed, and the request was answered
C8_Witness ==
    /\ loc.failed = "tasks_read"
    /\ loc.parsed_tasks # <<>>
    /\ resp.kind = "ok"

\* C9: in task assignment mode with no external failure, an answer that cannot
\* be decoded, that is no array, or whose candidates are all removed gives
\* status "success" with an empty tasks list.
C9_DegradedIsSuccess ==
    (/\ loc.mode = "task_assignment"
     /\ loc.failed = "none"
     /\ result.kind = "returned"
     /\ \/ loc.final_response \in {Tx.Garbage, Tx.Object, Tx.Truncated}
        \/ loc.filtered_tasks = <<>>) =>
        /\ result.status = "success"
        /\ result.hasTasks
        /\ result.tasks = <<>>

\* every validated candidate was removed by the Duplicate Filter
C9_Witness ==
    /\ loc.mode = "task_assignment"
    /\ loc.failed = "none"
    /\ result.kind = "returned"
    /\ loc.validated_tasks # <<>>
    /\ loc.filtered_tasks = <<>>

\* the goal lists stored for user u in a goals collection
StoredGoals(coll, u) == {d.goals : d \in {x \in Range(coll) : x.userId = u}}

\* what a successful goals request asks to be stored
ExpectedGoals(c) ==
    IF c.op = "set_user_goals" THEN c.goals
    ELSE LET keep == {n \in 1..Len(c.goals) : Strip(c.goals[n]) # <<>>}
         IN  [j \in 1..Cardinality(keep) |-> Strip(c.goals[Kth(keep, j)])]

\* the mode the spec gives each message of ModeMessages that reaches the
\* classification
ExpectedMode ==
    [None |-> "conversational", Share |-> "task_assignment", Updated |-> "task_assignment",
     DataScience |-> "conversational", Upper |-> "task_assignment", Near |-> "conversational"]

C12_ReplaceStep ==
    (goalCall' # goalCall \/ goals' # goals) =>
        IF goalCall'.code \in {200, 201}
        THEN /\ StoredGoals(goals', goalCall'.userId) = {ExpectedGoals(goalCall')}
             /\ \A v \in Users \ {goalCall'.userId} :
                  StoredGoals(goals', v) = StoredGoals(goals, v)
        ELSE goals' = goals
C12_GoalsReplaced == [][C12_ReplaceStep]_vars

\* a manage_goals call with a blank and a padded entry replaced a longer list
\* while the other user has goals
C12_Witness ==
    /\ goalCall.op = "manage_goals"
    /\ goalCall.code = 200
    /\ goalCall.goals = <<<<SP>>, <<SP, W("ai"), SP>>>>
    /\ StoredGoals(goals, "u1") = {<<<<W("ai")>>>>}
    /\ StoredGoals(goals, "u2") = {<<<<W("ml")>>, <<SP>>>>}

\* C13: parse_json_from_response ends by returning a list for every input and
\* never raises; for an input that is no string, an empty text, prose, a
\* truncated array, a JSON object and an array of scalars the list is empty.
C13_ParserTotal ==
    call.fn = "parse_json_from_response" =>
        /\ ~call.outcome.raised
        /\ DOMAIN call.outcome.tasks = 1..Len(call.outcome.tasks)
        /\ call.input \in {NotText, Text(Tx.Empty), Text(Tx.Garbage), Text(Tx.Truncated),
                            Text(Tx.Object), Text(Tx.Scalars)}
             => call.outcome.tasks = <<>>

\* the parser was called with an array whose elements are no objects
C13_Witness ==
    /\ call.fn = "parse_json_from_response"
    /\ call.input = Text(Tx.Scalars)
    /\ call.outcome.tasks = <<>>

\* C14: a candidate list that is JSON-encoded, optionally fenced and
\* optionally surrounded by prose, is parsed back to exactly that list.
C14_RoundTrip ==
    call.fn = "parse_json_from_response" =>
        \A c \in CandidateLists, w \in Inputs.Wraps, p \in Inputs.Proses :
            call.input = Text(Surround(p, Wrap(w, Encode(c)))) => call.outcome.tasks = c

\* the positions of the lines that, stripped, begin with a number and a dot or
\* a closing parenthesis, followed by at least the given number of tokens
NumberedAt(lines, least) ==
    {n \in 1..Len(lines) :
        /\ Len(lines[n]) >= 2 + least
        /\ lines[n][1].t = "num"
        /\ lines[n][2].v \in {".", ")"}}

\* the candidate of a numbered line
CandidateOf(line) ==
    [taskId |-> "suggested_task_" \o line[1].v,
     name |-> Strip(SubSeq(line, 3, Len(line))),
     isSuggested |-> TRUE]

\* the outcome is one candidate for each line at the positions K, in order
OnePerLine(outcome, lines, K) ==
    /\ ~outcome.raised
    /\ Len(outcome.tasks) = Cardinality(K)
    /\ \A j \in 1..Len(outcome.tasks) : outcome.tasks[j] = CandidateOf(lines[Kth(K, j)])

\* C17 as stated: every non-blank line that starts with an integer followed by
\* '.' or ')' gives one candidate suggested_task_<n> named by the rest of the line.
C17_EveryNumberedLine ==
    call.fn = "parse_agent_response_to_tasks" =>
        LET lines == StrippedLines(call.input.text) IN
        NumberedAt(lines, 0) # {} => OnePerLine(call.outcome, lines, NumberedAt(lines, 0))

\* C17 amended: every non-blank line that starts with an integer followed by
\* '.' or ')' and at least one more character gives one candidate
\* suggested_task_<n> named by the stripped rest of the line, in line order;
\* the three-line example gives suggested_task_1, suggested_task_2, suggested_task_3.
C17_NumberedLinesWithText ==
    call.fn = "parse_agent_response_to_tasks" =>
        LET lines == StrippedLines(call.input.text) IN
        /\ NumberedAt(lines, 1) # {} => OnePerLine(call.outcome, lines, NumberedAt(lines, 1))
        /\ call.input = Text(Tx.Numbered) =>
             [j \in 1..Len(call.outcome.tasks) |-> call.outcome.tasks[j].taskId]
                = <<"suggested_task_1", "suggested_task_2", "suggested_task_3">>

\* a text with two full numbered lines around a line that is only "2."
C17_Witness ==
    /\ call.fn = "parse_agent_response_to_tasks"
    /\ call.input = Text(JoinLines(<<NumberedLines[1], NumberedLines[5], NumberedLines[4]>>, 1))
    /\ Len(call.outcome.tasks) = 2

\* C15: the Enricher gives one record per filtered candidate, in order, whose
\* taskId is the candidate's id and whose taskName is the candidate's title, as
\* decoded; the only other fields are the fixed project's identifier and its
\* name; the step writes to no store.
C15_EnricherStep ==
    (pc = "project_read" /\ result'.kind = "returned" /\ result'.hasTasks) =>
        /\ Len(result'.tasks) = Len(loc.filtered_tasks)
        /\ \A i \in 1..Len(loc.filtered_tasks) :
              /\ DOMAIN result'.tasks[i] = {"taskId", "taskName", "projectId", "projectName"}
              /\ loc.filtered_tasks[i].id # Absent
              /\ result'.tasks[i].taskId = loc.filtered_tasks[i].id
              /\ loc.filtered_tasks[i].title # Absent =>
                    result'.tasks[i].taskName = loc.filtered_tasks[i].title
              /\ result'.tasks[i].projectId = FixedProject
              /\ result'.tasks[i].projectName \in
                    {p.name : p \in {d \in projects : d._id = FixedProject}} \cup {"Project School"}
        /\ <<tasks, projects, agents, assignments, chats, goals>>' =
             <<tasks, projects, agents, assignments, chats, goals>>
C15_Enricher == [][C15_EnricherStep]_vars

\* a candidate with the numeric id 22 was enriched with the stored project name
C15_Witness ==
    /\ pc = "insert"
    /\ result.tasks = <<[taskId |-> JNum("22"), taskName |-> JStr("Loops"),
                         projectId |-> FixedProject, projectName |-> "Alpha"]>>

\* C16: scenario A: the model's final text is the json-fenced array of
\* (a1, "Intro") and (t9, "Fake"), a1 is a task of the fixed project and t9 is
\* not, the user has no assignment and no call fails; then run_learning_agent
\* returns status success with exactly one recommendation, a1 named "Intro".
C16_ScenarioA ==
    (/\ pc = "insert"
     /\ loc.mode = "task_assignment"
     /\ loc.failed = "none"
     /\ loc.final_response = Tx.Fenced
     /\ "a1" \in loc.valid_task_ids
     /\ "t9" \notin loc.valid_task_ids
     /\ Held(req.userId) = {})
    => /\ result.kind = "returned"
       /\ result.status = "success"
       /\ Len(result.tasks) = 1
       /\ result.tasks[1].taskId = JStr("a1")
       /\ result.tasks[1].taskName = JStr("Intro")

\* scenario A has run over a project with the tasks a1 and 22
C16_Witness ==
    /\ pc = "insert"
    /\ loc.mode = "task_assignment"
    /\ loc.failed = "none"
    /\ loc.final_response = Tx.Fenced
    /\ loc.valid_task_ids = {"a1", "22"}
    /\ Held(req.userId) = {}
    /\ Len(result.tasks) = 1

\* C19: when every link_user_to_task request has been answered, however the
\* requests interleaved, each user has at most one assignment document, and
\* that document holds every task a request answered with success assigned.
C19_OneDocumentPerUser ==
    (\A n \in 1..Len(linkReqs) : linkReqs[n].at = "done") =>
        \A u \in Users :
            LET docs == {k \in 1..Len(assignments) : assignments[k].userId = u} IN
            /\ Cardinality(docs) <= 1
            /\ \A n \in 1..Len(linkReqs) :
                  (linkReqs[n].userId = u /\ linkReqs[n].code = 201) =>
                      \E k \in docs : \E j \in 1..Len(assignments[k].tasks) :
                          assignments[k].tasks[j].taskId = linkReqs[n].taskId

\* C20: in a task_assignment invocation the orchestrator has read the user's
\* assigned task identifiers and the task list of the fixed project before the
\* model is invoked: once the model has answered, neither read is still to come.
C20_ReadsBeforeModel ==
    loc.mode = "task_assignment" => pc \notin {"tasks_read", "assign_read"}

\* the positions of the lines of a text whose first character is a digit
DigitLed(text) ==
    {n \in 1..Len(SplitLines(text)) :
        LET l == Strip(SplitLines(text)[n]) IN l # <<>> /\ l[1].t = "num"}

\* C21: the agent endpoint gives the response text to the numbered-list parser
\* only if at least 3 of its lines begin with a digit: with fewer such lines
\* the tasks list it returns is empty, and a task it returns is one the parser
\* made.
C21_ListShapedOnly ==
    pc \in {"insert", "reread", "done"} =>
        /\ Cardinality(DigitLed(ep.agent_response)) < 3 => ep.tasks = <<>>
        /\ \A j \in 1..Len(ep.tasks) : ep.tasks[j].isSuggested
        /\ (pc = "done" /\ resp.kind = "ok") => resp.tasks = ep.tasks

\* a response of two numbered lines was returned with no tasks
C21_Witness ==
    /\ pc = "done"
    /\ resp.kind = "ok"
    /\ Cardinality(DigitLed(resp.message)) = 2
    /\ resp.tasks = <<>>

\* "Hello! I'm <name>. How can I help you today?"
Greeting(name) ==
    <<W("Hello!"), SP, W("I'm"), SP>> \o name
    \o <<P("."), SP, W("How"), SP, W("can"), SP, W("I"), SP, W("help"), SP, W("you"),
         SP, W("today?")>>

\* C22: a request whose message starts with "Updated the name of the agent to "
\* takes the name-update path, also when the message holds a task_assignment
\* phrase: the learning agent is not run and the model is not invoked, the
\* result has status success, no tasks and the greeting with the stripped rest
\* of the message as the name, and no step of the request changes the stored
\* agent documents.
C22_NameUpdateStep ==
    (pc' # "idle" /\ StartsWith(req'.message, NamePrefix)) =>
        LET name == Strip(SubSeq(req'.message, Len(NamePrefix) + 1, Len(req'.message))) IN
        /\ pc' \in {"insert", "reread", "done"}
        /\ loc'.mode = "none"
        /\ result' = Idle.result
        /\ ep'.status = "success"
        /\ ep'.tasks = <<>>
        /\ ep'.agent_response = Greeting(name)
        /\ resp'.kind = "ok" =>
              /\ resp'.message = Greeting(name)
              /\ resp'.status = "success"
              /\ resp'.tasks = <<>>
        /\ <<pc, req, loc, result, ep, resp>>' # <<pc, req, loc, result, ep, resp>>
              => agents' = agents

C22_NameUpdate == [][C22_NameUpdateStep]_vars

\* the message that also says "share tasks" was answered with the greeting,
\* while an agent name is stored
C22_Witness ==
    /\ pc = "done"
    /\ req.message = Msg.RenameShare
    /\ resp.kind = "ok"
    /\ resp.message = Greeting(<<W("share"), SP, W("tasks")>>)
    /\ agents = <<[userId |-> "u1", agentName |-> <<W("Al")>>]>>

\* C23: a step of an agent-endpoint invocation, in either mode, leaves the
\* goals, assignments, tasks, projects and agents collections as they are; the
\* only write is the insert of one chat record, so recommendations are
\* returned and never attached to the user's assignment.
C23_InvocationStep ==
    <<pc, req, loc, result, ep, resp>>' # <<pc, req, loc, result, ep, resp>> =>
        /\ <<goals, assignments, tasks, projects, agents>>'
             = <<goals, assignments, tasks, projects, agents>>
        /\ chats' # chats =>
             /\ pc = "insert"
             /\ chats' = Append(chats, chats'[Len(chats')])

C23_InvocationFrame == [][C23_InvocationStep]_vars

\* a task assignment invocation has returned the recommendation a1 and the
\* user holds no assignment
C23_Witness ==
    /\ pc = "done"
    /\ loc.mode = "task_assignment"
    /\ Len(result.tasks) = 1
    /\ result.tasks[1].taskId = JStr("a1")
    /\ assignments = <<>>
    /\ Len(chats) = 1

\* C24: the recommendation list run_learning_agent returns names no task
\* identifier more than once.
C24_NoRepeatedRecommendation ==
    (result.kind = "returned" /\ result.hasTasks) =>
        \A i, j \in 1..Len(result.tasks) :
            i # j => result.tasks[i].taskId # result.tasks[j].taskId

\* C25: when run_learning_agent returns, no task of its recommendation list is
\* in the assignment of the requesting user, also when link_user_to_task
\* requests of that user ran during the invocation.
C25_NoAssignedRecommendation ==
    (pc = "insert" /\ result.kind = "returned" /\ result.hasTasks) =>
        \A i \in 1..Len(result.tasks) : PyStr(result.tasks[i].taskId) \notin Held(req.userId)

\* the sub-records of the assignment documents of user u
SubRecords(coll, u) ==
    UNION {Range(coll[k].tasks) : k \in {n \in 1..Len(coll) : coll[n].userId = u}}

\* C26: update_task_completion_status, asked for a task that is in the user's
\* assignment and given either value, answers success, also when the stored
\* flag already has that value, and leaves the flag of the task at the value.
C26_CompletionStatus ==
    (/\ call.fn = "update_task_completion_status"
     /\ call.input.isCompleted # "None"
     /\ call.input.taskId \in Held(call.input.userId))
    => /\ http.code = 200
       /\ \A e \in SubRecords(assignments, call.input.userId) :
             e.taskId = call.input.taskId => e.isCompleted = (call.input.isCompleted = "True")

\* C27: update_user_task_assignment answers success only when the user's
\* assignment holds the named task; with no document of the user or without
\* the task in it the answer is 404.
C27_AssignmentNotFound ==
    call.fn = "update_user_task_assignment" =>
        IF call.input.taskId \in Held(call.input.userId)
        THEN http.code = 200
        ELSE http.code = 404

\* C28: after every step each taskId stored in an assignment is a well-formed
\* identifier of a task document of the task store, and link_user_to_task
\* answers 400 to an ill-formed identifier and 404 to one of no task, changing
\* no assignment, and 201 otherwise.
C28_StoredTaskExistsStep ==
    /\ \A u \in Users : \A e \in SubRecords(assignments', u) :
          /\ ObjectIdIsValid(e.taskId)
          /\ \E t \in tasks' : t._id = ObjectId(e.taskId)
    /\ (call'.fn = "link_user_to_task" /\ <<call, http, assignments>>' # <<call, http, assignments>>) =>
          IF ~ObjectIdIsValid(call'.input.taskId)
          THEN http'.code = 400 /\ assignments' = assignments
          ELSE IF ~\E t \in tasks : t._id = ObjectId(call'.input.taskId)
          THEN http'.code = 404 /\ assignments' = assignments
          ELSE http'.code = 201

C28_StoredTaskExists == [][C28_StoredTaskExistsStep]_vars

\* the second user holds a task, and a request of the first user for a
\* well-formed identifier of no task was refused
C28_Witness ==
    /\ call.fn = "link_user_to_task"
    /\ call.input = [userId |-> "u1", taskId |-> "22", isCompleted |-> "None"]
    /\ http.code = 404
    /\ Held("u2") = {"A1"}
    /\ Held("u1") = {}

\* the requests of the behaviour are two, both for the same user, and both
\* have returned success
TwoRearrangesDone ==
    /\ Len(rearrangeReqs) = 2
    /\ rearrangeReqs[1].userId = rearrangeReqs[2].userId
    /\ \A n \in 1..2 : rearrangeReqs[n].at = "done" /\ rearrangeReqs[n].code = 200

\* the loops of request a and then of request b, run over coll without a break
Serial(coll, a, b) ==
    ApplyRearrange(ApplyRearrange(coll, rearrangeReqs[a].userId, rearrangeReqs[a].updates, 1),
                   rearrangeReqs[b].userId, rearrangeReqs[b].updates, 1)

\* C29: when two rearrange_user_tasks requests for one user have both returned,
\* the sequenceIds of the user's tasks are those of running one request after
\* the other in some order.  The requests write sequenceIds only and nothing
\* else writes meanwhile, so the sub-records they name hold what the later
\* request of a serial run wrote: running that order again changes nothing.
C29_SerialRearrange ==
    TwoRearrangesDone =>
        \/ assignments = Serial(assignments, 1, 2)
        \/ assignments = Serial(assignments, 2, 1)

\* C30: delete_user_task, asked for a task that is in the user's assignment,
\* answers success and leaves the user's tasks array without the sub-records of
\* that taskId and with every other sub-record as it was, in order, and every
\* other document as it was; asked for a user without document or a task that
\* is not in the array, it answers 404 and changes nothing.
C30_DeleteStep ==
    (/\ call'.fn = "delete_user_task"
     /\ <<call, http, assignments>>' # <<call, http, assignments>>
     /\ call'.input.userId # ""
     /\ call'.input.taskId # "") =>
        LET u == call'.input.userId
            t == call'.input.taskId IN
        /\ <<tasks, projects, agents, chats, goals>>' = <<tasks, projects, agents, chats, goals>>
        /\ IF t \in Held(u)
           THEN /\ http'.code = 200
                /\ t \notin {e.taskId : e \in SubRecords(assignments', u)}
                /\ Len(assignments') = Len(assignments)
                /\ \A k \in 1..Len(assignments) :
                      /\ assignments'[k].userId = assignments[k].userId
                      /\ assignments'[k].tasks =
                            IF assignments[k].userId = u
                            THEN SelectSeq(assignments[k].tasks, LAMBDA e : e.taskId # t)
                            ELSE assignments[k].tasks
           ELSE /\ http'.code = 404
                /\ assignments' = assignments

C30_Delete == [][C30_DeleteStep]_vars

\* a1 was removed from the first user's array, which keeps 22, while the
\* second user still holds a1
C30_Witness ==
    /\ call.fn = "delete_user_task"
    /\ call.input.userId = "u1"
    /\ call.input.taskId = "a1"
    /\ http.code = 200
    /\ Held("u1") = {"22"}
    /\ Held("u2") = {"a1"}

\* C18: the chat log is append-only: a step keeps every stored chat record
\* with its fields and its place, and adds at most one.  A record is added only
\* by an invocation of the agent endpoint that has not stored one yet, and it
\* holds the response text; the invocation that completes returns the message
\* of the one record it added.
C18_AppendStep ==
    /\ Len(chats') >= Len(chats)
    /\ SubSeq(chats', 1, Len(chats)) = chats
    /\ chats' # chats =>
         /\ ep.inserted_id = 0
         /\ Len(chats') = Len(chats) + 1
         /\ ep'.inserted_id = Len(chats')
         /\ chats'[Len(chats')].userId = req.userId
         /\ chats'[Len(chats')].userType = "agent"
         /\ chats'[Len(chats')].message = ep.agent_response
    /\ (ep.inserted_id # 0 /\ ep'.inserted_id # ep.inserted_id) => pc' = "idle"
    /\ (resp'.kind = "ok" /\ resp.kind # "ok") =>
         /\ ep.inserted_id # 0
         /\ chats' = chats
         /\ resp'.id = ep.inserted_id
         /\ resp'.message = chats[ep.inserted_id].message
         /\ resp'.message = ep.agent_response

C18_AppendOnly == [][C18_AppendStep]_vars

\* the second invocation has completed: two records, the older one unchanged,
\* and the caller holds the message of the newer one
C18_Witness ==
    /\ Len(chats) = 2
    /\ resp.kind = "ok"
    /\ resp.id = 2
    /\ resp.message = chats[2].message
    /\ chats[1].message # chats[2].message
    /\ chats[1]._id = 1

\* C10: for a conversational request the caller gets the model's final text
\* unmodified and an empty tasks list, whatever the text is.
C10_ConversationalUnmodified ==
    Answered("conversational") =>
        /\ resp.message = loc.final_response
        /\ resp.tasks = <<>>

====
